---- MODULE Spec2Model ----
(***************************************************************************)
(* Proxy pool (app/proxy_manager.py) and download orchestration            *)
(* (app/tasks.py, app/routers/downloads.py) of the YouTube download        *)
(* service, as a state machine.                                            *)
(*                                                                         *)
(* Python indices are kept 0-based (current_proxy_index); TLA+ sequences   *)
(* are 1-based, so the element at Python index i is s[i + 1].              *)
(* A proxy dict is modelled by its identity (a number); 0 stands for None. *)
(***************************************************************************)
EXTENDS Integers, Sequences, FiniteSets, TLC

\* ------------------------------------------------------------------ bounds
MaxProxies == 3
MaxListing == 2
MaxTicks == 1
MaxPending == 1
MaxRequests == 2
MaxThreads == 2
MaxWords == 3
MaxSrtTasks == 2
MaxWait == 6
MaxDuration == 1
MaxWorkers == 2

\* -------------------------------------------------------- program constants
\* 24 * 3600: the staleness threshold of the persisted snapshot, in seconds
DAY == 86400

\* min(2 * attempt, 30) and min(2 * attempt, 15): the longest sleeps of
\* wait_for_file_url, in seconds
SleepCap == 30
SleepCapOnError == 15

\* time.time() when the worker starts: a day after the epoch of the model, so
\* that a snapshot saved at time 0 is exactly 24 hours old, and still fresh
StartTime == DAY

Proxies == 1..MaxProxies
NoProxy == 0

VARIABLES
    \* ProxyManager fields
    working_proxies,        \* List[Dict]
    current_proxy_index,    \* int
    last_proxy_update,      \* time of the last installing refresh
    \* environment of the pool
    proxy_file,             \* the persisted snapshot (proxies.json)
    now,                    \* time.time(), in seconds
    upstream,               \* the proxies the listing source serves, in its order
    pending_refresh,        \* refresh tasks created on a running event loop, not yet run
    raised,                 \* the exception the last pool operation raised to its caller, or "none"
    \* observers of the rotation
    handed,                 \* proxies returned by get_next_proxy since the set last changed
    expect,                 \* rotation due after an eviction away from the cursor
    \* observer of the refreshes
    last_refresh,           \* what the refresh that has just run read and was answered
    \* environment of the worker
    env,                    \* installed binaries and cookie files
    video_files,            \* the file store: names in assets/video, as <<identifier, extension>>
    \* download_video_task: the running request
    pc,                     \* the task's position
    req,                    \* its arguments: youtube_url, audio_only
    current_proxy,          \* the proxy handed to this request, NoProxy for None
    sweep,                  \* the running download_with_multiple_clients call
    result,                 \* the result of the last sweep
    attempts,               \* the download_with_retry invocations of this request
    tool_modes,             \* the ways this request ran the downloader tool
    pool_calls,             \* the pool operations this request called
    ret,                    \* what the task returned or raised
    \* the task queue's record of the task
    task_state,
    task_info,
    \* observers of the requests
    succeeded,              \* <<url, audio_only, identifier>> of the requests that completed
    repeat_of,              \* the identifier an earlier, equal request completed with, or <<>>
    first_result,           \* the result of the request's first sweep
    begin_pool,             \* working set and cursor when the request began
    nreq,                   \* the number of requests started
    \* callers of one ProxyManager running at the same time
    th,                     \* per thread: the pool method it is in, the statement it is at, its locals
    file_text,              \* the bytes of proxies.json: "whole", or what a write in progress left
    \* observers of the calls made to the pool
    last_call,              \* the pool method called last, its argument or return value
    evicted,                \* the proxy mark_proxy_failed removed last, if not checked alive since
    \* a caller of is_authentication_error
    error_text,             \* the text it passes
    verdict,                \* whether the call has returned, and what
    \* create_srt_task: the running request
    srt_pc,                 \* the task's position
    srt_url,                \* its argument youtube_url
    srt_files,              \* the file store: identifiers with a file in assets/srt
    srt_trace,              \* what this request has run: "download", "transcribe", "write"
    srt_ret,                \* what the task returned
    srt_state,              \* the task queue's state of the task
    nsrt,                   \* the number of transcript requests started
    \* RapidAPIService.wait_for_file_url: the running call
    wait_pc,                \* its position: "idle", "head", "get", "done"
    max_wait,               \* its argument, in seconds
    elapsed,                \* time.time() - start, in seconds, counted up to max_wait + 1
    attempt,                \* its local, counted up to AttemptCap
    wait_ret,               \* what it returned, "none" before it returns
    \* worker processes running download_video_task at the same time
    workers                 \* per worker: the task's position, its arguments, its result

poolVars == <<working_proxies, current_proxy_index, last_proxy_update, proxy_file,
              now, upstream, pending_refresh, raised>>
obsVars == <<handed, expect, last_refresh>>
envVars == <<env, video_files>>
taskVars == <<pc, req, current_proxy, sweep, result, attempts, tool_modes,
              pool_calls, ret, task_state, task_info, succeeded, repeat_of,
              first_result, begin_pool, nreq>>
sharedVars == <<th, file_text>>
callVars == <<last_call, evicted>>
classifierVars == <<error_text, verdict>>
srtVars == <<srt_pc, srt_url, srt_files, srt_trace, srt_ret, srt_state, nsrt>>
waitVars == <<wait_pc, max_wait, elapsed, attempt, wait_ret>>
extraVars == <<callVars, classifierVars, srtVars, waitVars, workers>>
notCallVars == <<classifierVars, srtVars, waitVars, workers>>
notClassifierVars == <<callVars, srtVars, waitVars, workers>>
notSrtVars == <<callVars, classifierVars, waitVars, workers>>
notWaitVars == <<callVars, classifierVars, srtVars, workers>>
notWorkerVars == <<callVars, classifierVars, srtVars, waitVars>>
vars == <<poolVars, obsVars, envVars, taskVars, sharedVars, extraVars>>

\* ------------------------------------------------------------ list helpers
\* All the sub-lists (order kept) of the upstream listing 1, 2, ..., MaxProxies.
SeqOfSet(S) ==
    LET In(x) == x \in S
    IN SelectSeq([i \in 1..MaxProxies |-> i], In)

SubLists == {SeqOfSet(S) : S \in SUBSET Proxies}

Range(s) == {s[i] : i \in 1..Len(s)}

\* Python's `x in lst`
Member(x, s) == \E i \in 1..Len(s) : s[i] = x

\* Python's lst.index(x), 1-based here; 0 when absent
IndexOf(x, s) ==
    IF Member(x, s) THEN CHOOSE i \in 1..Len(s) : s[i] = x /\ \A j \in 1..(i - 1) : s[j] # x
    ELSE 0

\* Python's lst.remove(x): drops the first element equal to x
RemoveFirst(x, s) ==
    LET i == IndexOf(x, s)
    IN IF i = 0 THEN s ELSE SubSeq(s, 1, i - 1) \o SubSeq(s, i + 1, Len(s))

\* The last n elements of s (all of s when it is shorter).
LastN(s, n) == IF Len(s) <= n THEN s ELSE SubSeq(s, Len(s) - n + 1, Len(s))

\* ------------------------------------------------------ persisted snapshot
NoFile == [exists |-> FALSE, proxies |-> <<>>, saved_at |-> 0]

\* the set rewritten under the save time the file already had
SaveOldTimestamp(proxies, write_ok) ==
    IF write_ok
    THEN [exists |-> TRUE, proxies |-> proxies, saved_at |-> proxy_file.saved_at]
    ELSE proxy_file

\* json.dump of {'proxies', 'saved_at', 'count'}; an exception while writing is
\* caught and printed, the file then stays as it was.
save_proxies_to_file(proxies, write_ok) ==
    IF write_ok
    THEN [exists |-> TRUE, proxies |-> proxies, saved_at |-> now]
    ELSE proxy_file

\* a snapshot of any age taken as fresh
StaleNever(file, t) == FALSE

\* The staleness test of load_proxies_from_file.
Stale(file, t) == t - file.saved_at > DAY

\* the snapshot never used
LoadNothing(read_ok) == <<>>

\* [] when the file is missing, cannot be read (the exception is caught) or is
\* older than 24 hours; its proxies otherwise.
load_proxies_from_file(read_ok) ==
    IF ~proxy_file.exists THEN <<>>
    ELSE IF ~read_ok THEN <<>>
    ELSE IF Stale(proxy_file, now) THEN <<>>
    ELSE proxy_file.proxies

\* Whether reading the snapshot fails. Only a file that exists is opened, and a
\* failed read of a stale file returns what the staleness test returns ([]),
\* so the failure is told apart for a fresh file only.
ReadOutcomes == IF proxy_file.exists /\ ~Stale(proxy_file, now) THEN BOOLEAN ELSE {TRUE}

\* ------------------------------------------------------------ ProxyManager
\* The first n proxies, in the order of the upstream listing.
Listing(n) == [i \in 1..n |-> i]

\* get_proxies_from_api: the entries of the listing, [] on any failure.
ApiResponses == {<<>>, upstream}

\* one failed check failing them all
CheckAllOrNothing(proxies, alive) ==
    IF Range(proxies) \subseteq alive THEN proxies ELSE <<>>

\* check_all_proxies: the candidates whose check returned True, in order.
check_all_proxies(proxies, alive) ==
    LET Ok(p) == p \in alive
    IN SelectSeq(proxies, Ok)

\* The pool after `self.working_proxies = lst; self.current_proxy_index = 0;
\* self.last_proxy_update = time.time()`.
Install(lst) ==
    /\ working_proxies' = lst
    /\ current_proxy_index' = 0
    /\ last_proxy_update' = now
    /\ handed' = <<>>
    /\ expect' = <<>>

PoolUnchanged ==
    UNCHANGED <<working_proxies, current_proxy_index, last_proxy_update, handed, expect>>

\* no refresh has just run
NoRefresh == [ran |-> FALSE, read_ok |-> TRUE, from_file |-> FALSE,
              candidates |-> <<>>, alive |-> {}, write_ok |-> TRUE]

\* The refresh that has just run: whether the snapshot could be read and was
\* installed, the candidates the listing gave ([] on failure), the candidates
\* whose check succeeded, and whether the snapshot could be written.
RefreshRan(read_ok, from_file, candidates, alive, write_ok) ==
    [ran |-> TRUE, read_ok |-> read_ok, from_file |-> from_file,
     candidates |-> candidates, alive |-> alive, write_ok |-> write_ok]

\* the pool emptied when the listing gives nothing
NoCandidatesClears == Install(<<>>) /\ UNCHANGED proxy_file

\* `if not proxies: return`
NoCandidatesReturn == PoolUnchanged /\ UNCHANGED proxy_file

\* the pool emptied when no candidate passes its check
NoneAliveClears == Install(<<>>) /\ UNCHANGED proxy_file

\* `if working_proxies: ... else:` only a message is printed
NoneAliveReturn == PoolUnchanged /\ UNCHANGED proxy_file

update_working_proxies ==
    \E read_ok \in ReadOutcomes :
      LET saved_proxies == load_proxies_from_file(read_ok)
      IN IF saved_proxies # <<>>
         THEN /\ Install(saved_proxies)
              /\ UNCHANGED proxy_file
              /\ last_refresh' = RefreshRan(read_ok, TRUE, <<>>, {}, TRUE)
         ELSE \E proxies \in ApiResponses :
                IF proxies = <<>>
                THEN /\ NoCandidatesReturn
                     /\ last_refresh' = RefreshRan(read_ok, FALSE, <<>>, {}, TRUE)
                ELSE \E alive \in SUBSET Range(proxies) :
                       LET working == check_all_proxies(proxies, alive)
                       IN IF working # <<>>
                          THEN \E write_ok \in BOOLEAN :
                                 /\ proxy_file' = save_proxies_to_file(working, write_ok)
                                 /\ Install(working)
                                 /\ last_refresh' = RefreshRan(read_ok, FALSE, proxies, alive, write_ok)
                          ELSE /\ NoneAliveReturn
                               /\ last_refresh' = RefreshRan(read_ok, FALSE, proxies, alive, TRUE)

\* The index get_next_proxy reads: reset to 0 when it is past the end.
ClampIndex(idx, n) == IF idx >= n THEN 0 ELSE idx

\* the cursor left where it was
AdvanceIndexStuck(idx, n) == idx

AdvanceIndex(idx, n) == (idx + 1) % n

\* The proxy get_next_proxy returns (NoProxy for None).
NextProxy ==
    IF working_proxies = <<>> THEN NoProxy
    ELSE working_proxies[ClampIndex(current_proxy_index, Len(working_proxies)) + 1]

get_next_proxy ==
    IF working_proxies = <<>>
    THEN UNCHANGED <<working_proxies, current_proxy_index, handed>>
    ELSE /\ current_proxy_index' =
              AdvanceIndex(ClampIndex(current_proxy_index, Len(working_proxies)),
                           Len(working_proxies))
         /\ handed' = LastN(Append(handed, NextProxy), MaxProxies + 1)
         /\ UNCHANGED working_proxies

\* The rotation that is due once `proxy` is gone: the other proxies, in cyclic
\* order from the one get_next_proxy would have returned; <<>> when `proxy` is
\* the one at the cursor.
DueAfterEvict(proxy) ==
    LET n == Len(working_proxies)
        c == ClampIndex(current_proxy_index, n)
        rot == [i \in 1..n |-> working_proxies[((c + i - 1) % n) + 1]]
    IN IF IndexOf(proxy, working_proxies) = c + 1 THEN <<>>
       ELSE RemoveFirst(proxy, rot)

\* asyncio.create_task(self.update_working_proxies()): on a running event loop
\* the task is scheduled; without one create_task raises RuntimeError.
CreateTask(ctx) ==
    IF ctx = "loop"
    THEN pending_refresh' = pending_refresh + 1 /\ raised' = "none"
    ELSE pending_refresh' = pending_refresh /\ raised' = "RuntimeError"

\* the membership test left out
IsWorkingAlways(proxy) == TRUE

\* `if proxy in self.working_proxies`
IsWorking(proxy) == Member(proxy, working_proxies)

mark_proxy_failed(proxy, ctx) ==
    IF IsWorking(proxy)
    THEN LET rest == RemoveFirst(proxy, working_proxies)
         IN /\ working_proxies' = rest
            /\ handed' = <<>>
            /\ expect' = DueAfterEvict(proxy)
            /\ UNCHANGED <<current_proxy_index, last_proxy_update>>
            /\ IF rest # <<>>
               THEN /\ \E write_ok \in BOOLEAN :
                         proxy_file' = save_proxies_to_file(rest, write_ok)
                    /\ UNCHANGED pending_refresh
                    /\ raised' = "none"
               ELSE /\ UNCHANGED proxy_file
                    /\ CreateTask(ctx)
    ELSE /\ PoolUnchanged
         /\ UNCHANGED <<proxy_file, pending_refresh>>
         /\ raised' = "none"

\* a refresh asked for by the age of the last one
ShouldUpdateByAge == now - last_proxy_update > DAY

should_update_proxies == Len(working_proxies) = 0

\* ------------------------------------------------- the pool's operations
\* update_proxies_task, or any caller awaiting update_working_proxies()
Refresh ==
    /\ UNCHANGED <<envVars, taskVars, sharedVars, extraVars>>
    /\ update_working_proxies
    /\ raised' = "none"
    /\ UNCHANGED <<now, upstream, pending_refresh>>

\* a refresh task scheduled by mark_proxy_failed runs on the event loop
BackgroundRefresh ==
    /\ UNCHANGED <<envVars, taskVars, sharedVars, extraVars>>
    /\ pending_refresh > 0
    /\ pending_refresh' = pending_refresh - 1
    /\ update_working_proxies
    /\ raised' = "none"
    /\ UNCHANGED <<now, upstream>>

HandOut ==
    /\ UNCHANGED <<envVars, taskVars, sharedVars, extraVars>>
    /\ get_next_proxy
    /\ raised' = "none"
    /\ last_refresh' = NoRefresh
    /\ UNCHANGED <<last_proxy_update, proxy_file, now, upstream, pending_refresh, expect>>

\* Where mark_proxy_failed is called from: synchronous code, or code on a
\* running event loop. The two differ only when the call empties the set.
CallContexts(proxy) ==
    IF working_proxies = <<proxy>> THEN {"sync", "loop"} ELSE {"sync"}

Evict ==
    \E proxy \in Proxies :
      \E ctx \in CallContexts(proxy) :
        /\ ctx = "loop" /\ Len(working_proxies) = 1 => pending_refresh < MaxPending
        /\ mark_proxy_failed(proxy, ctx)
        /\ last_refresh' = NoRefresh
        /\ UNCHANGED <<now, upstream, envVars, taskVars, sharedVars, extraVars>>

\* the clock advances by a day
Tick ==
    /\ now < StartTime + MaxTicks * DAY
    /\ now' = now + DAY
    /\ last_refresh' = NoRefresh
    /\ UNCHANGED <<working_proxies, current_proxy_index, last_proxy_update, proxy_file,
                   upstream, pending_refresh, raised, handed, expect, envVars, taskVars,
                   sharedVars, extraVars>>

\* ------------------------------------------- the pool's calls, observed
\* The operations of the pool again, each one recording what was called and,
\* in `evicted`, the proxy mark_proxy_failed removed last, for as long as it
\* has not passed check_proxy again.
CallRefresh ==
    /\ update_working_proxies
    /\ raised' = "none"
    /\ last_call' = [op |-> "refresh", proxy |-> NoProxy, member |-> FALSE]
    /\ evicted' = evicted \ last_refresh'.alive
    /\ UNCHANGED <<now, upstream, pending_refresh, envVars, taskVars, sharedVars, notCallVars>>

CallBackgroundRefresh ==
    /\ pending_refresh > 0
    /\ pending_refresh' = pending_refresh - 1
    /\ update_working_proxies
    /\ raised' = "none"
    /\ last_call' = [op |-> "refresh", proxy |-> NoProxy, member |-> FALSE]
    /\ evicted' = evicted \ last_refresh'.alive
    /\ UNCHANGED <<now, upstream, envVars, taskVars, sharedVars, notCallVars>>

CallNext ==
    /\ get_next_proxy
    /\ raised' = "none"
    /\ last_refresh' = NoRefresh
    /\ last_call' = [op |-> "next", proxy |-> NextProxy, member |-> FALSE]
    /\ UNCHANGED <<last_proxy_update, proxy_file, now, upstream, pending_refresh, expect,
                   evicted, envVars, taskVars, sharedVars, notCallVars>>

CallEvict ==
    \E proxy \in Proxies :
      \E ctx \in CallContexts(proxy) :
        /\ ctx = "loop" /\ Len(working_proxies) = 1 => pending_refresh < MaxPending
        /\ mark_proxy_failed(proxy, ctx)
        /\ last_refresh' = NoRefresh
        /\ last_call' = [op |-> "evict", proxy |-> proxy,
                         member |-> Member(proxy, working_proxies)]
        /\ evicted' = IF Member(proxy, working_proxies) THEN {proxy} ELSE evicted
        /\ UNCHANGED <<now, upstream, envVars, taskVars, sharedVars, notCallVars>>

\* ------------------------------------------------------------ error texts
\* A text is the list of its words; a keyword is a list of words, and `kw in
\* text` is modelled as kw being a run of consecutive words of the text.
ErrHttp500 == <<"HTTP", "500", "server", "error">>
ErrSignIn == <<"Please", "sign", "in", "to", "confirm", "you're", "not", "a", "bot">>
ErrProxy == <<"Unable", "to", "connect", "to", "proxy">>
ErrConnection == <<"Connection", "refused">>
ErrTimeout == <<"Taymaut", "pri", "zagruzke">>
ErrFFmpeg == <<"FFmpeg", "ne", "nayden">>
ErrFileNotFound == <<"Fayl", "ne", "nayden", "posle", "zagruzki">>
ErrNoRunningLoop == <<"no", "running", "event", "loop">>
AllClientsFailedPrefix == <<"Vse", "klienty", "ne", "srabotali.", "Poslednyaya", "oshibka:">>

\* str.lower(), word by word
LowerWord(w) ==
    CASE w = "HTTP" -> "http"
      [] w = "Please" -> "please"
      [] w = "Unable" -> "unable"
      [] w = "Connection" -> "connection"
      [] w = "Taymaut" -> "taymaut"
      [] w = "FFmpeg" -> "ffmpeg"
      [] w = "Fayl" -> "fayl"
      [] w = "Vse" -> "vse"
      [] w = "Poslednyaya" -> "poslednyaya"
      [] OTHER -> w

Lower(text) == [i \in 1..Len(text) |-> LowerWord(text[i])]

\* Python's `kw in text`
Contains(text, kw) ==
    \E i \in 1..(Len(text) - Len(kw) + 1) : SubSeq(text, i, i + Len(kw) - 1) = kw

auth_keywords ==
    { <<"sign", "in", "to", "confirm">>, <<"please", "sign", "in">>,
      <<"authentication", "required">>, <<"login", "required">>, <<"cookies">>,
      <<"age", "verification">>, <<"age-restricted">>, <<"private", "video">>,
      <<"members-only">>, <<"premium", "content">>, <<"subscription", "required">> }

\* case taken into account
IsAuthenticationErrorCaseSensitive(error_message) ==
    \E keyword \in auth_keywords : Contains(error_message, keyword)

is_authentication_error(error_message) ==
    LET error_lower == Lower(error_message)
    IN \E keyword \in auth_keywords : Contains(error_lower, keyword)

\* the test of the except handler: "proxy" in str(e).lower() or "connection" in ...
IsProxyError(text) ==
    Contains(Lower(text), <<"proxy">>) \/ Contains(Lower(text), <<"connection">>)

\* ------------------------------------------------------------ identifiers
\* A URL is its form and the 11-character key it carries.
YouTubeForms == {"watch?v=", "youtu.be/", "embed/", "v/", "shorts/"}
Urls == { [form |-> "watch?v=", key |-> "A"], [form |-> "other", key |-> "B"] }

\* The key when one of the patterns matches, the head of the URL's md5 otherwise.
extract_youtube_id(url) ==
    IF url.form \in YouTubeForms THEN <<"id", url.key>> ELSE <<"md5", url.form, url.key>>

\* ------------------------------------------------------- strategy orderings
CookieOrder == <<"mobile", "web", "ios", "mweb", "android", "tv_embedded", "tv">>
GeneralOrder == <<"mobile", "web", "android", "ios", "tv_embedded", "mweb", "tv">>

\* os.path.exists of a cookie path ("none" for None)
CookieFileExists(path) == path # "none" /\ path \in env.cookie_files

\* The text of a cookie file is the list of its lines, a line being the number
\* of its tab-separated fields; 0 stands for a blank line or a `#` comment.
NetscapeFields == 7
NetscapeText == <<0, NetscapeFields>>
CookieTexts == {<<>>, <<0>>, <<0, 3>>, NetscapeText}

\* validate_cookies_file: the file exists and, skipping blank lines and
\* comments, at least one line has seven or more fields.
validate_cookies_file(cookie_file) ==
    /\ CookieFileExists(cookie_file)
    /\ \E k \in 1..Len(env.cookie_text) : env.cookie_text[k] >= NetscapeFields

\* the ordering chosen by the kind of download asked for
ClientsOrderByRequest(use_cookies, cookies_path) ==
    IF req.audio_only THEN CookieOrder ELSE GeneralOrder

\* clients_order of download_with_multiple_clients
clients_order(use_cookies, cookies_path) ==
    IF use_cookies /\ cookies_path # "none" /\ CookieFileExists(cookies_path)
    THEN CookieOrder
    ELSE GeneralOrder

\* download_with_retry: whether `--cookies <file>` is on the command line
PassesCookies(use_cookies, cookies_path) ==
    /\ use_cookies
    /\ LET cookie_file == IF cookies_path # "none" THEN cookies_path ELSE "main"
       IN CookieFileExists(cookie_file)

\* What one download_with_retry call can return.
Success == [success |-> TRUE, error |-> <<>>, error_type |-> "none"]
Failure(text, type) == [success |-> FALSE, error |-> text, error_type |-> type]
ToolOutcomes ==
    {Success} \cup {Failure(t, "YtDlpError") : t \in {ErrHttp500, ErrSignIn, ErrProxy, ErrConnection}}
         \cup {Failure(ErrTimeout, "TimeoutError")}

\* The extension the downloader writes for the request.
OutputExt(audio_only) == IF audio_only THEN "mp3" ELSE "mp4"

\* ---------------------------------------------------------- task results
NoResult == [success |-> FALSE, error |-> <<>>, error_type |-> "none"]
NoSweep == [n |-> 0, use_cookies |-> FALSE, cookies_path |-> "none"]
NoReq == [youtube_url |-> [form |-> "none", key |-> "none"], audio_only |-> FALSE]
NoRet == [status |-> "none", progress |-> 0, file_name |-> <<>>, youtube_id |-> <<>>,
          cached |-> FALSE, error |-> <<>>, exc_type |-> "none"]

Completed(file, id, cached) ==
    [status |-> "completed", progress |-> 100, file_name |-> file, youtube_id |-> id,
     cached |-> cached, error |-> <<>>, exc_type |-> "none"]

Failed(text, type) ==
    [status |-> "failed", progress |-> 0, file_name |-> <<>>, youtube_id |-> <<>>,
     cached |-> FALSE, error |-> text, exc_type |-> type]

\* an exception that leaves the task function
Raised(text, type) ==
    [status |-> "raised", progress |-> 0, file_name |-> <<>>, youtube_id |-> <<>>,
     cached |-> FALSE, error |-> text, exc_type |-> type]

\* self.update_state(state=..., meta=...)
Meta(status, progress) == [status |-> status, progress |-> progress,
                           error |-> <<>>, exc_type |-> "none", file_name |-> <<>>]

\* The task queue's record once the task function has ended: a returned value
\* is stored as the result of a SUCCESS task (replacing what update_state
\* wrote before the return), an exception as that of a FAILURE.
StateOnEnd(r) == IF r.status = "raised" THEN "FAILURE" ELSE "SUCCESS"

TaskEnds(r) ==
    /\ ret' = r
    /\ task_state' = StateOnEnd(r)
    /\ task_info' = [status |-> r.status, progress |-> r.progress, error |-> r.error,
                     exc_type |-> r.exc_type, file_name |-> r.file_name]
    /\ pc' = "done"
    /\ succeeded' = IF r.status = "completed"
                    THEN succeeded \cup {<<req'.youtube_url, req'.audio_only, r.youtube_id>>}
                    ELSE succeeded

\* get_download_status: what a poller is told
StatusResponse ==
    CASE task_state = "PENDING" ->
           [state |-> task_state, status |-> "waiting", progress |-> 0,
            error |-> <<>>, exc_type |-> "none"]
      [] task_state = "PROGRESS" ->
           [state |-> task_state, status |-> task_info.status, progress |-> task_info.progress,
            error |-> <<>>, exc_type |-> "none"]
      [] task_state = "SUCCESS" ->
           [state |-> task_state, status |-> "completed", progress |-> 100,
            error |-> <<>>, exc_type |-> "none"]
      [] OTHER ->
           [state |-> task_state, status |-> "error", progress |-> 0,
            error |-> task_info.error, exc_type |-> task_info.exc_type]

\* ------------------------------------------------ download_with_multiple_clients
\* What the download_with_retry calls of one sweep return, call by call: the
\* first j - 1 calls fail with `early`, the calls from the j-th on return `last`.
SweepScript(j, early, last) ==
    [i \in 1..Len(GeneralOrder) |-> IF i < j THEN early ELSE last]

\* The call that decides the sweep: any call when it succeeds (the loop stops
\* there), the last one when it fails (its error is the one reported).
DecidingCalls(last) ==
    IF last.success THEN 1..Len(GeneralOrder) ELSE {Len(GeneralOrder)}

\* What the calls before the j-th can have failed with.
EarlyFailures == {Failure(ErrSignIn, "YtDlpError"), Failure(ErrHttp500, "YtDlpError")}

\* the error of the first failed call kept to the end
RECURSIVE TryClientsFirstError(_, _, _, _)
TryClientsFirstError(order, outs, i, error) ==
    IF i > Len(order)
    THEN [result |-> Failure(AllClientsFailedPrefix \o error, "AllClientsFailed"),
          made |-> Len(order)]
    ELSE IF outs[i].success
         THEN [result |-> outs[i], made |-> i]
         ELSE TryClientsFirstError(order, outs, i + 1,
                                   IF error = <<>> THEN outs[i].error ELSE error)

\* the errors of all the failed calls kept, one after the other
RECURSIVE TryClientsAllErrors(_, _, _, _)
TryClientsAllErrors(order, outs, i, error) ==
    IF i > Len(order)
    THEN [result |-> Failure(AllClientsFailedPrefix \o error, "AllClientsFailed"),
          made |-> Len(order)]
    ELSE IF outs[i].success
         THEN [result |-> outs[i], made |-> i]
         ELSE TryClientsAllErrors(order, outs, i + 1, error \o outs[i].error)

\* The loop over clients_order from the i-th client on: the first successful
\* result, or AllClientsFailed carrying the last error. `made` counts the calls.
RECURSIVE TryClients(_, _, _, _)
TryClients(order, outs, i, error) ==
    IF i > Len(order)
    THEN [result |-> Failure(AllClientsFailedPrefix \o error, "AllClientsFailed"),
          made |-> Len(order)]
    ELSE IF outs[i].success
         THEN [result |-> outs[i], made |-> i]
         ELSE TryClients(order, outs, i + 1, outs[i].error)

download_with_multiple_clients(use_cookies, cookies_path, outs) ==
    TryClients(clients_order(use_cookies, cookies_path), outs, 1, <<>>)

\* The download_with_retry calls of a sweep that made `made` calls.
SweepAttempts(n, use_cookies, cookies_path, made) ==
    [i \in 1..made |->
        [client |-> clients_order(use_cookies, cookies_path)[i], n |-> n,
         use_cookies |-> use_cookies,
         cookies |-> PassesCookies(use_cookies, cookies_path),
         proxy |-> current_proxy]]

\* ------------------------------------------------------ download_video_task
YoutubeId == extract_youtube_id(req.youtube_url)

\* the cache check skipped
ExistingFilesNone == {}

\* The cached artifact the task looks for: <id>.mp3 for audio, any file of the
\* identifier that is no .mp3 for video.
ExistingFiles ==
    IF req.audio_only
    THEN {f \in video_files : f = <<YoutubeId, "mp3">>}
    ELSE {f \in video_files : f[1] = YoutubeId /\ f[2] # "mp3"}

\* The same for the request r of any worker.
ExistingFilesOf(r) ==
    LET id == extract_youtube_id(r.youtube_url)
    IN IF r.audio_only
       THEN {f \in video_files : f = <<id, "mp3">>}
       ELSE {f \in video_files : f[1] = id /\ f[2] # "mp3"}

DownloadedFilesOf(r) ==
    LET id == extract_youtube_id(r.youtube_url)
    IN IF r.audio_only
       THEN {f \in video_files : f = <<id, "mp3">>}
       ELSE {f \in video_files : f[1] = id}

\* The file the task reports after a download: the .mp3 of the identifier for
\* audio, any file of the identifier for video.
DownloadedFiles ==
    IF req.audio_only
    THEN {f \in video_files : f[1] = YoutubeId /\ f[2] = "mp3"}
    ELSE {f \in video_files : f[1] = YoutubeId}

\* The identifier under which an earlier request for the same URL and type
\* completed; <<>> when there is none.
RepeatOf(url, audio) ==
    IF \E s \in succeeded : s[1] = url /\ s[2] = audio
    THEN (CHOOSE s \in succeeded : s[1] = url /\ s[2] = audio)[3]
    ELSE <<>>

\* no check for the conversion binary
FFmpegNeverMissing(audio) == FALSE

\* `if audio_only:` subprocess.run(['ffmpeg', '-version'], check=True) raises
\* CalledProcessError or FileNotFoundError
FFmpegMissing(audio) == audio /\ ~env.ffmpeg

\* The arguments and the early returns before the pool is touched.
Begin ==
    /\ pc \in {"idle", "done"}
    /\ nreq < MaxRequests
    /\ nreq' = nreq + 1
    /\ \E url \in Urls, audio \in BOOLEAN :
         /\ req' = [youtube_url |-> url, audio_only |-> audio]
         /\ repeat_of' = RepeatOf(url, audio)
         /\ first_result' = NoResult
         /\ begin_pool' = <<working_proxies, current_proxy_index>>
         /\ current_proxy' = NoProxy
         /\ sweep' = NoSweep
         /\ result' = NoResult
         /\ attempts' = <<>>
         /\ tool_modes' = {"version"}
         /\ pool_calls' = {}
         /\ IF FFmpegMissing(audio)
            THEN TaskEnds(Failed(ErrFFmpeg, "FFmpegNotFound"))
            ELSE /\ pc' = "pool"
                 /\ ret' = NoRet
                 /\ task_state' = "PROGRESS"
                 /\ task_info' = Meta("start", 0)
                 /\ UNCHANGED succeeded
    /\ UNCHANGED <<poolVars, obsVars, envVars, sharedVars, extraVars>>

\* if proxy_manager.should_update_proxies(): asyncio.run(update_working_proxies())
RefreshStep ==
    /\ pc = "pool"
    /\ pc' = "get_proxy"
    /\ IF should_update_proxies
       THEN update_working_proxies /\ pool_calls' = pool_calls \cup {"refresh"}
       ELSE PoolUnchanged /\ UNCHANGED <<proxy_file, pool_calls, last_refresh>>
    /\ raised' = "none"
    /\ UNCHANGED <<now, upstream, pending_refresh, envVars, req, current_proxy, sweep,
                   result, attempts, tool_modes, ret, task_state, task_info, succeeded,
                   repeat_of, first_result, begin_pool, nreq, sharedVars, extraVars>>

\* proxy_obj = proxy_manager.get_next_proxy(); current_proxy = proxy_obj
GetProxyStep ==
    /\ pc = "get_proxy"
    /\ pc' = "cache"
    /\ current_proxy' = NextProxy
    /\ get_next_proxy
    /\ pool_calls' = pool_calls \cup {"next"}
    /\ raised' = "none"
    /\ last_refresh' = NoRefresh
    /\ UNCHANGED <<last_proxy_update, proxy_file, now, upstream, pending_refresh, expect, envVars,
                   req, sweep, result, attempts, tool_modes, ret, task_state,
                   task_info, succeeded, repeat_of, first_result, begin_pool, nreq, sharedVars, extraVars>>

\* cookies_path and cookies_exist of the task
CookiesPath ==
    IF CookieFileExists("main") THEN "main"
    ELSE IF CookieFileExists("alt") THEN "alt" ELSE "main"

CookiesExist == CookieFileExists("main") \/ CookieFileExists("alt")

\* The arguments of the first download_with_multiple_clients call.
FirstSweep ==
    IF CookiesExist
    THEN [n |-> 1, use_cookies |-> TRUE, cookies_path |-> CookiesPath]
    ELSE [n |-> 1, use_cookies |-> FALSE, cookies_path |-> "none"]

\* The sweep `sw` runs: its calls are appended, its result kept, and a
\* successful call has written the output file.
RunSweep(sw) ==
    \E last \in ToolOutcomes, early \in EarlyFailures :
      \E j \in DecidingCalls(last) :
        LET outs == SweepScript(j, early, last)
            run == download_with_multiple_clients(sw.use_cookies, sw.cookies_path, outs)
        IN /\ sweep' = sw
           /\ result' = run.result
           /\ first_result' = IF sw.n = 1 THEN run.result ELSE first_result
           /\ attempts' = attempts \o SweepAttempts(sw.n, sw.use_cookies, sw.cookies_path, run.made)
           /\ tool_modes' = tool_modes \cup
                  (IF run.result.success THEN {"download", "info"} ELSE {"download"})
           /\ video_files' = IF run.result.success
                             THEN video_files \cup {<<YoutubeId, OutputExt(req.audio_only)>>}
                             ELSE video_files

\* The cache check and, when nothing is cached, the first sweep.
CacheStep ==
    /\ pc = "cache"
    /\ UNCHANGED <<poolVars, obsVars, env, req, current_proxy, pool_calls, repeat_of,
                   begin_pool, nreq, sharedVars, extraVars>>
    /\ IF ExistingFiles # {}
       THEN /\ \E existing_file \in ExistingFiles :
                 TaskEnds(Completed(existing_file, YoutubeId, TRUE))
            /\ tool_modes' = tool_modes \cup {"info"}
            /\ UNCHANGED <<sweep, result, first_result, attempts, video_files>>
       ELSE /\ RunSweep(FirstSweep)
            /\ pc' = "after_sweep"
            /\ task_info' = Meta("sweep", 5)
            /\ UNCHANGED <<ret, task_state, succeeded>>

\* the retry started by any failure
ShouldEscalateAnyError == ~result.success /\ ~CookiesExist

\* the retry started only when the first sweep already had the cookie file
ShouldEscalateWithFile ==
    ~result.success /\ is_authentication_error(result.error) /\ CookiesExist

\* The test that starts the retry with cookies.
ShouldEscalate ==
    ~result.success /\ is_authentication_error(result.error) /\ ~CookiesExist

\* retry_cookies_path of the task
RetryCookiesPath ==
    IF CookiesPath # "none" /\ CookieFileExists(CookiesPath) THEN CookiesPath ELSE "alt"

\* the retry with cookies started again after the second sweep
EscalateAgain ==
    /\ pc = "after_sweep"
    /\ sweep.n \in {1, 2}
    /\ ShouldEscalate
    /\ RunSweep([n |-> sweep.n + 1, use_cookies |-> TRUE, cookies_path |-> RetryCookiesPath])
    /\ task_info' = Meta("retry", 10)
    /\ UNCHANGED <<poolVars, obsVars, env, pc, req, current_proxy, pool_calls, ret,
                   task_state, succeeded, repeat_of, begin_pool, nreq, sharedVars, extraVars>>

\* The second download_with_multiple_clients call.
Escalate ==
    /\ pc = "after_sweep"
    /\ sweep.n = 1
    /\ ShouldEscalate
    /\ RunSweep([n |-> 2, use_cookies |-> TRUE, cookies_path |-> RetryCookiesPath])
    /\ task_info' = Meta("retry", 10)
    /\ UNCHANGED <<poolVars, obsVars, env, pc, req, current_proxy, pool_calls, ret,
                   task_state, succeeded, repeat_of, begin_pool, nreq, sharedVars, extraVars>>

\* the proxy evicted whatever the error text
ShouldEvictAnyText(text) == current_proxy # NoProxy

\* the eviction decided by the error text alone
ShouldEvictByText(text) == IsProxyError(text)

\* `if current_proxy is not None and ("proxy" in ... or "connection" in ...)`
ShouldEvict(text) == current_proxy # NoProxy /\ IsProxyError(text)

\* The except block of the task for Exception(text).
ExceptHandler(text) ==
    IF ShouldEvict(text)
    THEN /\ mark_proxy_failed(current_proxy, "sync")
         /\ pool_calls' = pool_calls \cup {"evict"}
         /\ IF raised' = "RuntimeError"
            THEN TaskEnds(Raised(ErrNoRunningLoop, "RuntimeError"))
            ELSE TaskEnds(Failed(text, "Exception"))
    ELSE /\ PoolUnchanged
         /\ UNCHANGED <<proxy_file, pending_refresh, raised, pool_calls>>
         /\ TaskEnds(Failed(text, "Exception"))

\* From `if not result['success']: raise` to the end of the task.
Finish ==
    /\ pc = "after_sweep"
    /\ ~(sweep.n = 1 /\ ShouldEscalate)
    /\ UNCHANGED <<now, upstream, last_refresh, envVars, req, current_proxy, sweep, result,
                   attempts, tool_modes, repeat_of, first_result, begin_pool, nreq, sharedVars, extraVars>>
    /\ IF result.success
       THEN IF DownloadedFiles # {}
            THEN /\ \E downloaded_file \in DownloadedFiles :
                      TaskEnds(Completed(downloaded_file, YoutubeId, FALSE))
                 /\ PoolUnchanged
                 /\ UNCHANGED <<proxy_file, pending_refresh, raised, pool_calls>>
            ELSE ExceptHandler(ErrFileNotFound)
       ELSE ExceptHandler(result.error)

\* The workers whose cookie files, if any, hold cookies in Netscape format.
Envs == [ffmpeg : BOOLEAN, cookie_files : SUBSET {"main", "alt"}, cookie_text : {NetscapeText}]

\* The workers with ffmpeg whose cookie files hold any of the texts.
EnvsAnyText ==
    {e \in [ffmpeg : {TRUE}, cookie_files : SUBSET {"main", "alt"}, cookie_text : CookieTexts] :
        e.cookie_files = {} => e.cookie_text = NetscapeText}

\* No request has been made.
InitRequests ==
    /\ video_files = {}
    /\ pc = "idle"
    /\ req = NoReq
    /\ current_proxy = NoProxy
    /\ sweep = NoSweep
    /\ result = NoResult
    /\ attempts = <<>>
    /\ tool_modes = {}
    /\ pool_calls = {}
    /\ ret = NoRet
    /\ task_state = "PENDING"
    /\ task_info = Meta("none", 0)
    /\ succeeded = {}
    /\ repeat_of = <<>>
    /\ first_result = NoResult
    /\ begin_pool = <<<<>>, 0>>
    /\ nreq = 0

InitTask == env \in Envs /\ InitRequests

\* A thread that is in no method of the pool.
IdleThread == [op |-> "idle", at |-> "none", proxy |-> NoProxy, lst |-> <<>>,
               stable |-> TRUE, out |-> "none", seen |-> "none"]

\* ProxyManager.__init__
\* no call has been made
NoCall == [op |-> "none", proxy |-> NoProxy, member |-> FALSE]

\* is_authentication_error has not returned
NoVerdict == [returned |-> FALSE, value |-> FALSE]

InitCalls ==
    /\ last_call = NoCall
    /\ evicted = {}

\* no text is being classified
InitNoText ==
    /\ error_text = <<>>
    /\ verdict = NoVerdict

\* what create_srt_task returns
SrtCompleted(cached, audio_cached) ==
    [status |-> "completed", cached |-> cached, audio_cached |-> audio_cached]
SrtFailed == [status |-> "failed", cached |-> FALSE, audio_cached |-> FALSE]
NoSrtRet == [status |-> "none", cached |-> FALSE, audio_cached |-> FALSE]

\* no transcript has been asked for
InitSrt ==
    /\ srt_pc = "idle"
    /\ srt_url = NoReq.youtube_url
    /\ srt_files = {}
    /\ srt_trace = <<>>
    /\ srt_ret = NoSrtRet
    /\ srt_state = "PENDING"
    /\ nsrt = 0

\* wait_for_file_url has not been called
InitNoWait ==
    /\ wait_pc = "idle"
    /\ max_wait = 0
    /\ elapsed = 0
    /\ attempt = 0
    /\ wait_ret = "none"

\* a worker process that has not been given a task
IdleWorker == [pc |-> "idle", req |-> NoReq, result |-> NoResult, ret |-> NoRet, n |-> 0]

InitWorkers == workers = [w \in 1..MaxWorkers |-> IdleWorker]

InitExtra == InitCalls /\ InitNoText /\ InitSrt /\ InitNoWait /\ InitWorkers

\* ProxyManager.__init__, and the worker's clock
InitFields ==
    /\ th = [t \in 1..MaxThreads |-> IdleThread]
    /\ file_text = "whole"
    /\ working_proxies = <<>>
    /\ current_proxy_index = 0
    /\ last_proxy_update = 0
    /\ now = StartTime
    /\ pending_refresh = 0
    /\ raised = "none"
    /\ handed = <<>>
    /\ expect = <<>>
    /\ last_refresh = NoRefresh

InitManager ==
    /\ InitExtra
    /\ InitFields

\* The snapshot an earlier run left behind: none, or some of the proxies known
\* then (saved 24 hours ago); the listing now serves the first MaxListing.
InitPool ==
    /\ InitManager
    /\ upstream = Listing(MaxListing)
    /\ proxy_file \in {NoFile} \cup
           {[exists |-> TRUE, proxies |-> l, saved_at |-> 0] : l \in SubLists \ {<<>>}}

\* -------------------------------------------------------- create_srt_task
SrtId == extract_youtube_id(srt_url)

\* audio_path of the task: <id>.mp3 in assets/video
AudioExists(id) == <<id, "mp3">> \in video_files

\* The task returns r: the returned dict is stored as the result of a SUCCESS
\* task, whatever update_state wrote before.
SrtEnds(r) ==
    /\ srt_ret' = r
    /\ srt_state' = "SUCCESS"
    /\ srt_pc' = "done"

\* From the start of the task to the return of the cached transcript, to the
\* call of the nested download, or to the transcription.
SrtBegin ==
    /\ srt_pc \in {"idle", "done"}
    /\ pc \in {"idle", "done"}
    /\ nsrt < MaxSrtTasks
    /\ nsrt' = nsrt + 1
    /\ srt_trace' = <<>>
    /\ \E url \in Urls :
         /\ srt_url' = url
         /\ IF extract_youtube_id(url) \in srt_files
            THEN SrtEnds(SrtCompleted(TRUE, FALSE))
            ELSE /\ srt_ret' = NoSrtRet
                 /\ srt_state' = "PROGRESS"
                 /\ srt_pc' = IF AudioExists(extract_youtube_id(url))
                              THEN "transcribe" ELSE "call_download"
    /\ UNCHANGED srt_files
    /\ UNCHANGED <<poolVars, obsVars, envVars, taskVars, sharedVars, notSrtVars>>

\* download_video_task.apply(args=[youtube_url, True]): a download task is
\* made, to run in this worker before apply() returns
SrtCallDownload ==
    /\ srt_pc = "call_download"
    /\ srt_pc' = "download"
    /\ srt_trace' = Append(srt_trace, "download")
    /\ pc' = "idle"
    /\ UNCHANGED <<srt_url, srt_files, srt_ret, srt_state, nsrt>>
    /\ UNCHANGED <<req, current_proxy, sweep, result, attempts, tool_modes, pool_calls, ret,
                   task_state, task_info, succeeded, repeat_of, first_result, begin_pool,
                   nreq>>
    /\ UNCHANGED <<poolVars, obsVars, envVars, sharedVars, notSrtVars>>

\* the nested download task starts with the arguments (youtube_url, True)
SrtDownloadBegins ==
    /\ srt_pc = "download"
    /\ pc = "idle"
    /\ Begin
    /\ req' = [youtube_url |-> srt_url, audio_only |-> TRUE]

\* the nested download task runs to its end
SrtDownloadRuns ==
    /\ srt_pc = "download"
    /\ pc \notin {"idle", "done"}
    /\ RefreshStep \/ GetProxyStep \/ CacheStep \/ Escalate \/ Finish

\* `download_result.successful()` is false, or the result is a dict with
\* status 'failed'
DownloadFailed(r) == r.status \in {"raised", "failed"}

\* the transcription started whatever the download left
AudioNeverMissing(r) == FALSE

\* The raises after apply(): the download failed, or `not
\* os.path.exists(audio_path)`.
AudioMissing(r) == DownloadFailed(r) \/ ~AudioExists(SrtId)

\* From the return of apply() to the raise or to the transcription.
SrtAfterDownload ==
    /\ srt_pc = "download"
    /\ pc = "done"
    /\ IF AudioMissing(ret)
       THEN SrtEnds(SrtFailed)
       ELSE /\ srt_pc' = "transcribe"
            /\ UNCHANGED <<srt_ret, srt_state>>
    /\ UNCHANGED <<srt_url, srt_files, srt_trace, nsrt>>
    /\ UNCHANGED <<poolVars, obsVars, envVars, taskVars, sharedVars, notSrtVars>>

\* whisper.load_model and model.transcribe, and, when they return,
\* generate_srt_from_segments; any exception ends the task as failed
SrtTranscribe ==
    /\ srt_pc = "transcribe"
    /\ \E load_ok, transcribe_ok \in BOOLEAN, write \in {"written", "cut short", "refused"} :
         /\ srt_trace' = srt_trace
                \o (IF load_ok THEN <<"transcribe">> ELSE <<>>)
                \o (IF load_ok /\ transcribe_ok THEN <<"write">> ELSE <<>>)
         /\ srt_files' = IF load_ok /\ transcribe_ok /\ write # "refused"
                         THEN srt_files \cup {SrtId}
                         ELSE srt_files
         /\ IF load_ok /\ transcribe_ok /\ write = "written"
            THEN SrtEnds(SrtCompleted(FALSE, srt_trace = <<>>))
            ELSE SrtEnds(SrtFailed)
    /\ UNCHANGED <<srt_url, nsrt>>
    /\ UNCHANGED <<poolVars, obsVars, envVars, taskVars, sharedVars, notSrtVars>>

NextSrt ==
    \/ SrtBegin
    \/ SrtCallDownload
    \/ SrtDownloadBegins
    \/ SrtDownloadRuns
    \/ SrtAfterDownload
    \/ SrtTranscribe

\* --------------------------------------- RapidAPIService.wait_for_file_url
\* a requests.RequestException in place of a response
RequestError == 0

\* What a request to the file URL gives: a status code, or RequestError.
Responses == {200, 206, 401, 403, 404, 500, RequestError}

\* The seconds a request can take.
Durations == 0..MaxDuration

Min(a, b) == IF a < b THEN a ELSE b

\* From this value on min(2 * attempt, 30) is the same for every attempt.
AttemptCap == SleepCap \div 2

\* time.time() - start after d more seconds; past max_wait the value no
\* longer matters to `elapsed > max_wait`.
After(e, d) == Min(e + d, max_wait + 1)

WaitReturns(value) ==
    /\ wait_ret' = value
    /\ wait_pc' = "done"

\* `if elapsed > max_wait: return False`, else time.sleep(min(2 * attempt,
\* cap)) and `continue`; `e` is the time at the test, `n` the attempt
CheckAndSleep(e, n, cap) ==
    IF e > max_wait
    THEN WaitReturns("False") /\ elapsed' = e
    ELSE /\ elapsed' = After(e, Min(2 * n, cap))
         /\ wait_pc' = "head"
         /\ UNCHANGED wait_ret

\* the end of the loop body reached: the loop goes round at once
FallThrough(e) ==
    /\ elapsed' = e
    /\ wait_pc' = "head"
    /\ UNCHANGED wait_ret

\* wait_for_file_url(file_url, max_wait) is called.
WaitCall ==
    /\ wait_pc = "idle"
    /\ \E w \in 1..MaxWait : max_wait' = w
    /\ wait_pc' = "head"
    /\ elapsed' = 0
    /\ attempt' = 0
    /\ wait_ret' = "none"
    /\ UNCHANGED <<poolVars, obsVars, envVars, taskVars, sharedVars, notWaitVars>>

\* `attempt += 1` and the HEAD request of one round of the loop
WaitHead ==
    /\ wait_pc = "head"
    /\ attempt' = Min(attempt + 1, AttemptCap)
    /\ \E r \in Responses, d \in Durations :
         LET e == After(elapsed, d)
         IN CASE r = 200 -> WaitReturns("True") /\ elapsed' = e
              [] r = 404 -> CheckAndSleep(e, Min(attempt + 1, AttemptCap), SleepCap)
              [] r \in {401, 403} -> WaitReturns("False") /\ elapsed' = e
              [] r = RequestError -> CheckAndSleep(e, Min(attempt + 1, AttemptCap), SleepCapOnError)
              [] OTHER -> /\ wait_pc' = "get"
                          /\ elapsed' = e
                          /\ UNCHANGED wait_ret
    /\ UNCHANGED max_wait
    /\ UNCHANGED <<poolVars, obsVars, envVars, taskVars, sharedVars, notWaitVars>>

\* the GET request with Range: bytes=0-0 of the same round
WaitGet ==
    /\ wait_pc = "get"
    /\ \E r \in Responses, d \in Durations :
         LET e == After(elapsed, d)
         IN CASE r \in {200, 206} -> WaitReturns("True") /\ elapsed' = e
              [] r = 404 -> CheckAndSleep(e, attempt, SleepCap)
              [] r \in {401, 403} -> WaitReturns("False") /\ elapsed' = e
              [] r = RequestError -> CheckAndSleep(e, attempt, SleepCapOnError)
              [] OTHER -> FallThrough(e)
    /\ UNCHANGED <<max_wait, attempt>>
    /\ UNCHANGED <<poolVars, obsVars, envVars, taskVars, sharedVars, notWaitVars>>

NextWait == WaitCall \/ WaitHead \/ WaitGet

\* --------------------------------- download_video_task in several workers
\* The worker processes of the task queue. Each has its own ProxyManager; the
\* directory assets/video is the one thing they share.
Workers == 1..MaxWorkers

WorkerStep(w, r) == workers' = [workers EXCEPT ![w] = r]

WorkerEnds(w, r) == WorkerStep(w, [workers[w] EXCEPT !.pc = "done", !.ret = r])

\* The task starts: the ffmpeg check, then the pool steps of this worker's own
\* ProxyManager, up to the cache check.
WorkerBegin(w) ==
    /\ workers[w].pc \in {"idle", "done"}
    /\ workers[w].n < MaxRequests
    /\ \E url \in Urls, audio \in BOOLEAN :
         LET r == [youtube_url |-> url, audio_only |-> audio]
             started == [IdleWorker EXCEPT !.req = r, !.n = workers[w].n + 1]
         IN IF FFmpegMissing(audio)
            THEN WorkerStep(w, [started EXCEPT !.pc = "done",
                                               !.ret = Failed(ErrFFmpeg, "FFmpegNotFound")])
            ELSE WorkerStep(w, [started EXCEPT !.pc = "cache"])
    /\ UNCHANGED <<poolVars, obsVars, envVars, taskVars, sharedVars, notWorkerVars>>

\* existing_file of the task of worker w
WorkerCache(w) == ExistingFilesOf(workers[w].req)

\* `if existing_file: return {... 'cached': True}`; otherwise the task goes on
\* to the download
WorkerCacheStep(w) ==
    /\ workers[w].pc = "cache"
    /\ IF WorkerCache(w) # {}
       THEN \E existing_file \in WorkerCache(w) :
              WorkerEnds(w, Completed(existing_file,
                                      extract_youtube_id(workers[w].req.youtube_url), TRUE))
       ELSE WorkerStep(w, [workers[w] EXCEPT !.pc = "sweep"])
    /\ UNCHANGED <<poolVars, obsVars, envVars, taskVars, sharedVars, notWorkerVars>>

\* The downloader runs with output path <id>.%(ext)s, through the sweep and,
\* if it comes to that, the second sweep with cookies; when a call succeeds
\* the file of the request's type has been written.
WorkerSweep(w) ==
    /\ workers[w].pc = "sweep"
    /\ \E last \in ToolOutcomes :
         LET run == download_with_multiple_clients(FALSE, "none",
                        SweepScript(Len(GeneralOrder), last, last))
             id == extract_youtube_id(workers[w].req.youtube_url)
         IN /\ WorkerStep(w, [workers[w] EXCEPT !.pc = "after_sweep", !.result = run.result])
            /\ video_files' = IF run.result.success
                              THEN video_files \cup {<<id, OutputExt(workers[w].req.audio_only)>>}
                              ELSE video_files
    /\ UNCHANGED <<poolVars, obsVars, env, taskVars, sharedVars, notWorkerVars>>

\* From `if not result['success']: raise` to the end of the task.
WorkerFinish(w) ==
    /\ workers[w].pc = "after_sweep"
    /\ LET id == extract_youtube_id(workers[w].req.youtube_url)
       IN IF workers[w].result.success
          THEN IF DownloadedFilesOf(workers[w].req) # {}
               THEN \E downloaded_file \in DownloadedFilesOf(workers[w].req) :
                      WorkerEnds(w, Completed(downloaded_file, id, FALSE))
               ELSE WorkerEnds(w, Failed(ErrFileNotFound, "Exception"))
          ELSE WorkerEnds(w, Failed(workers[w].result.error, "Exception"))
    /\ UNCHANGED <<poolVars, obsVars, envVars, taskVars, sharedVars, notWorkerVars>>

NextWorkers ==
    \E w \in Workers :
        WorkerBegin(w) \/ WorkerCacheStep(w) \/ WorkerSweep(w) \/ WorkerFinish(w)

\* ------------------------------------------- is_authentication_error, called
\* The words of the error texts passed to the classifier.
Words == {"Please", "sign", "in", "cookies", "private", "video", "error"}

\* The texts of at most n words.
RECURSIVE TextsUpTo(_)
TextsUpTo(n) ==
    IF n = 0 THEN {<<>>}
    ELSE LET shorter == TextsUpTo(n - 1)
         IN shorter \cup {Append(t, w) : t \in shorter, w \in Words}

Texts == TextsUpTo(MaxWords)

\* is_authentication_error(error_text) is called and returns.
Classify ==
    /\ verdict' = [returned |-> TRUE, value |-> is_authentication_error(error_text)]
    /\ UNCHANGED error_text
    /\ UNCHANGED <<poolVars, obsVars, envVars, taskVars, sharedVars, notClassifierVars>>

NextClassifier == Classify

\* A caller holding any of the texts.
InitClassifier ==
    /\ InitFields
    /\ InitCalls
    /\ error_text \in Texts
    /\ verdict = NoVerdict
    /\ InitSrt
    /\ InitNoWait
    /\ InitWorkers
    /\ upstream = Listing(MaxListing)
    /\ proxy_file = NoFile
    /\ InitRequests
    /\ env = [ffmpeg |-> TRUE, cookie_files |-> {}, cookie_text |-> NetscapeText]

\* The pool alone, under any sequence of its operations.
NextPool == Refresh \/ BackgroundRefresh \/ HandOut \/ Evict \/ Tick

InitPoolAlone ==
    InitPool /\ InitTask /\ env = [ffmpeg |-> TRUE, cookie_files |-> {}, cookie_text |-> NetscapeText]

SpecPool == InitPoolAlone /\ [][NextPool]_vars

SpecClassifier == InitClassifier /\ [][NextClassifier]_vars

\* The pool under any sequence of observed calls, the clock standing still.
NextCalls == CallRefresh \/ CallBackgroundRefresh \/ CallNext \/ CallEvict

SpecCalls == InitPoolAlone /\ [][NextCalls]_vars

\* One worker running transcript tasks, one after the other, no cookie file
\* installed.
InitSrtWorker ==
    /\ InitManager
    /\ upstream = Listing(MaxListing)
    /\ proxy_file \in {NoFile, [exists |-> TRUE, proxies |-> upstream, saved_at |-> 0]}
    /\ env \in {e \in Envs : e.cookie_files = {}}
    /\ InitRequests

SpecSrt == InitSrtWorker /\ [][NextSrt]_vars

\* One call of wait_for_file_url; the thread that runs the loop keeps running.
\* Two worker processes on one machine, the file store empty.
InitWorkerPool ==
    /\ InitManager
    /\ upstream = Listing(MaxListing)
    /\ proxy_file = NoFile
    /\ InitRequests
    /\ env \in {e \in Envs : e.cookie_files = {}}

SpecWorkers == InitWorkerPool /\ [][NextWorkers]_vars

InitWaitCaller ==
    /\ InitManager
    /\ upstream = Listing(MaxListing)
    /\ proxy_file = NoFile
    /\ InitRequests
    /\ env = [ffmpeg |-> TRUE, cookie_files |-> {}, cookie_text |-> NetscapeText]

SpecWait == InitWaitCaller /\ [][NextWait]_vars /\ WF_vars(NextWait)

\* One worker running download tasks, one after the other; the snapshot an
\* earlier run left behind is absent, or holds the whole listing and is fresh.
Init ==
    /\ InitManager
    /\ upstream = Listing(MaxListing)
    /\ proxy_file \in {NoFile, [exists |-> TRUE, proxies |-> upstream, saved_at |-> 0]}
    /\ InitTask

Next ==
    \/ Begin
    \/ RefreshStep
    \/ GetProxyStep
    \/ CacheStep
    \/ Escalate
    \/ Finish

Spec == Init /\ [][Next]_vars

\* A step of the request that is running. The task body is straight-line code
\* and every external call in it returns (subprocess and HTTP timeouts), so a
\* running request always takes its next step.
RunningStep == RefreshStep \/ GetProxyStep \/ CacheStep \/ Escalate \/ Finish

SpecLive == Init /\ [][Next]_vars /\ WF_vars(RunningStep)

\* One worker running download tasks, with cookie files of any content and
\* no snapshot left behind.
InitCookies ==
    /\ InitManager
    /\ upstream = Listing(MaxListing)
    /\ proxy_file = NoFile
    /\ env \in EnvsAnyText
    /\ InitRequests

SpecCookies == InitCookies /\ [][Next]_vars

\* ------------------------------------------- callers running at the same time
\* Several threads of one worker process call the methods of the one
\* proxy_manager object; the methods take no lock, so their statements
\* interleave. A thread's `at` names the statement it executes next, `proxy` and
\* `lst` are its locals, `seen` is the text its read of the snapshot found,
\* `stable` tells that the working set was not changed since its call of
\* get_next_proxy began, and `out` is the exception its last call raised.
Threads == 1..MaxThreads

\* What is left alone by every statement of the pool's methods.
otherVars == <<now, upstream, pending_refresh, raised, obsVars, envVars, taskVars,
              extraVars>>

\* Thread t goes on as r.
Step(t, r) == th' = [th EXCEPT ![t] = r]

\* Thread t goes on as r after changing the working set under the others.
StepChangingSet(t, r) ==
    th' = [x \in Threads |->
             IF x = t THEN r
             ELSE IF th[x].op = "next" THEN [th[x] EXCEPT !.stable = FALSE]
             ELSE th[x]]

Goto(t, label) == [th[t] EXCEPT !.at = label]

\* The call of thread t returns.
Return(t) == IdleThread

\* The call of thread t raises.
Raise(t, exception) == [IdleThread EXCEPT !.out = exception]

\* A thread enters get_next_proxy, update_working_proxies, or
\* mark_proxy_failed with a proxy of the working set (which may be gone from
\* it by the time the method looks).
Call(t) ==
    /\ th[t].op = "idle"
    /\ \E op \in {"next", "evict", "refresh"} :
         \E proxy \in (IF op = "evict" THEN Range(working_proxies) ELSE {NoProxy}) :
           Step(t, [op |-> op,
                    at |-> CASE op = "next" -> "if_empty"
                             [] op = "evict" -> "if_in"
                             [] OTHER -> "load",
                    proxy |-> proxy, lst |-> <<>>, stable |-> TRUE,
                    out |-> "none", seen |-> "none"])
    /\ UNCHANGED <<poolVars, obsVars, envVars, taskVars, extraVars, file_text>>

\* get_next_proxy: `if not self.working_proxies: return None`
GnpIfEmpty(t) ==
    /\ th[t].op = "next" /\ th[t].at = "if_empty"
    /\ Step(t, IF working_proxies = <<>> THEN Return(t) ELSE Goto(t, "if_past_end"))
    /\ UNCHANGED <<poolVars, obsVars, envVars, taskVars, extraVars, file_text>>

\* `if self.current_proxy_index >= len(self.working_proxies):`
GnpIfPastEnd(t) ==
    /\ th[t].op = "next" /\ th[t].at = "if_past_end"
    /\ Step(t, IF current_proxy_index >= Len(working_proxies)
               THEN Goto(t, "reset") ELSE Goto(t, "read"))
    /\ UNCHANGED <<poolVars, obsVars, envVars, taskVars, extraVars, file_text>>

\* `self.current_proxy_index = 0`
GnpReset(t) ==
    /\ th[t].op = "next" /\ th[t].at = "reset"
    /\ current_proxy_index' = 0
    /\ Step(t, Goto(t, "read"))
    /\ UNCHANGED <<working_proxies, last_proxy_update, proxy_file, file_text, otherVars>>

\* `proxy = self.working_proxies[self.current_proxy_index]`
GnpRead(t) ==
    /\ th[t].op = "next" /\ th[t].at = "read"
    /\ Step(t, IF current_proxy_index < Len(working_proxies)
               THEN [th[t] EXCEPT !.at = "advance",
                                  !.proxy = working_proxies[current_proxy_index + 1]]
               ELSE Raise(t, "IndexError"))
    /\ UNCHANGED <<poolVars, obsVars, envVars, taskVars, extraVars, file_text>>

\* `self.current_proxy_index = (self.current_proxy_index + 1) % len(self.working_proxies)`
GnpAdvance(t) ==
    /\ th[t].op = "next" /\ th[t].at = "advance"
    /\ IF working_proxies = <<>>
       THEN /\ Step(t, Raise(t, "ZeroDivisionError"))
            /\ UNCHANGED current_proxy_index
       ELSE /\ current_proxy_index' = AdvanceIndex(current_proxy_index, Len(working_proxies))
            /\ Step(t, Goto(t, "return"))
    /\ UNCHANGED <<working_proxies, last_proxy_update, proxy_file, file_text, otherVars>>

\* `return proxy`
GnpReturn(t) ==
    /\ th[t].op = "next" /\ th[t].at = "return"
    /\ Step(t, Return(t))
    /\ UNCHANGED <<poolVars, obsVars, envVars, taskVars, extraVars, file_text>>

\* mark_proxy_failed: `if proxy in self.working_proxies:`
MpfIfIn(t) ==
    /\ th[t].op = "evict" /\ th[t].at = "if_in"
    /\ Step(t, IF Member(th[t].proxy, working_proxies)
               THEN Goto(t, "remove") ELSE Return(t))
    /\ UNCHANGED <<poolVars, obsVars, envVars, taskVars, extraVars, file_text>>

\* `self.working_proxies.remove(proxy)`; ValueError when it is gone by now
MpfRemove(t) ==
    /\ th[t].op = "evict" /\ th[t].at = "remove"
    /\ IF Member(th[t].proxy, working_proxies)
       THEN /\ working_proxies' = RemoveFirst(th[t].proxy, working_proxies)
            /\ StepChangingSet(t, Goto(t, "if_left"))
       ELSE /\ Step(t, Raise(t, "ValueError"))
            /\ UNCHANGED working_proxies
    /\ UNCHANGED <<current_proxy_index, last_proxy_update, proxy_file, file_text, otherVars>>

\* `if self.working_proxies:` save_proxies_to_file(self.working_proxies)
MpfIfLeft(t) ==
    /\ th[t].op = "evict" /\ th[t].at = "if_left"
    /\ Step(t, IF working_proxies # <<>>
               THEN [th[t] EXCEPT !.at = "open", !.lst = working_proxies]
               ELSE Goto(t, "if_none"))
    /\ UNCHANGED <<poolVars, obsVars, envVars, taskVars, extraVars, file_text>>

\* `if not self.working_proxies:` asyncio.create_task(...), which raises
\* RuntimeError in a thread that runs no event loop
MpfIfNone(t) ==
    /\ th[t].op = "evict" /\ th[t].at = "if_none"
    /\ Step(t, IF working_proxies = <<>>
               THEN Raise(t, "RuntimeError") ELSE Return(t))
    /\ UNCHANGED <<poolVars, obsVars, envVars, taskVars, extraVars, file_text>>

\* The statement after the call of save_proxies_to_file.
AfterSave(t) == IF th[t].op = "evict" THEN "if_none" ELSE "set_list"

\* save_proxies_to_file: `with open(self.proxy_storage_file, 'w') as f:`
\* truncates the file; a failure to open it is caught and the method returns.
SaveOpen(t) ==
    /\ th[t].op \in {"evict", "refresh"} /\ th[t].at = "open"
    /\ \E write_ok \in BOOLEAN :
         IF write_ok
         THEN /\ file_text' = "empty"
              /\ Step(t, Goto(t, "dump"))
         ELSE /\ UNCHANGED file_text
              /\ Step(t, Goto(t, AfterSave(t)))
    /\ UNCHANGED <<poolVars, obsVars, envVars, taskVars, extraVars>>

\* What the file holds after this writer's json.dump and close: its text, or,
\* when another writer has written a longer text since this one opened the
\* file, its text followed by the end of the other.
TextAfterDump(lst) ==
    IF file_text \in {"whole", "mixed"} /\ Len(proxy_file.proxies) > Len(lst)
    THEN "mixed"
    ELSE "whole"

\* `json.dump(proxy_data, f, ...)` and the close of the file
SaveDump(t) ==
    /\ th[t].op \in {"evict", "refresh"} /\ th[t].at = "dump"
    /\ proxy_file' = save_proxies_to_file(th[t].lst, TRUE)
    /\ file_text' = TextAfterDump(th[t].lst)
    /\ Step(t, Goto(t, AfterSave(t)))
    /\ UNCHANGED <<working_proxies, current_proxy_index, last_proxy_update, otherVars>>

\* What os.path.exists, open and json.load find at the snapshot's path.
SeenText == IF proxy_file.exists \/ file_text # "whole" THEN file_text ELSE "none"

\* update_working_proxies: `saved_proxies = self.load_proxies_from_file()`;
\* json.load raises on a text that is no whole document, which is caught.
UwpLoad(t) ==
    /\ th[t].op = "refresh" /\ th[t].at = "load"
    /\ \E read_ok \in ReadOutcomes :
         LET saved_proxies == IF file_text = "whole"
                              THEN load_proxies_from_file(read_ok) ELSE <<>>
         IN Step(t, IF saved_proxies # <<>>
                    THEN [th[t] EXCEPT !.at = "set_list", !.lst = saved_proxies,
                                       !.seen = SeenText]
                    ELSE [th[t] EXCEPT !.at = "api", !.seen = SeenText])
    /\ UNCHANGED <<poolVars, obsVars, envVars, taskVars, extraVars, file_text>>

\* `proxies = await self.get_proxies_from_api()`; `if not proxies: return`
UwpApi(t) ==
    /\ th[t].op = "refresh" /\ th[t].at = "api"
    /\ \E proxies \in ApiResponses :
         Step(t, IF proxies = <<>>
                 THEN Return(t)
                 ELSE [th[t] EXCEPT !.at = "check", !.lst = proxies])
    /\ UNCHANGED <<poolVars, obsVars, envVars, taskVars, extraVars, file_text>>

\* `working_proxies = await self.check_all_proxies(proxies)`; `if working_proxies:`
UwpCheck(t) ==
    /\ th[t].op = "refresh" /\ th[t].at = "check"
    /\ \E alive \in SUBSET Range(th[t].lst) :
         LET working == check_all_proxies(th[t].lst, alive)
         IN Step(t, IF working # <<>>
                    THEN [th[t] EXCEPT !.at = "open", !.lst = working]
                    ELSE Return(t))
    /\ UNCHANGED <<poolVars, obsVars, envVars, taskVars, extraVars, file_text>>

\* `self.working_proxies = ...`
UwpSetList(t) ==
    /\ th[t].op = "refresh" /\ th[t].at = "set_list"
    /\ working_proxies' = th[t].lst
    /\ StepChangingSet(t, Goto(t, "set_index"))
    /\ UNCHANGED <<current_proxy_index, last_proxy_update, proxy_file, file_text, otherVars>>

\* `self.current_proxy_index = 0`
UwpSetIndex(t) ==
    /\ th[t].op = "refresh" /\ th[t].at = "set_index"
    /\ current_proxy_index' = 0
    /\ Step(t, Goto(t, "set_time"))
    /\ UNCHANGED <<working_proxies, last_proxy_update, proxy_file, file_text, otherVars>>

\* `self.last_proxy_update = time.time()`
UwpSetTime(t) ==
    /\ th[t].op = "refresh" /\ th[t].at = "set_time"
    /\ last_proxy_update' = now
    /\ Step(t, Return(t))
    /\ UNCHANGED <<working_proxies, current_proxy_index, proxy_file, file_text, otherVars>>

\* The snapshot an earlier run left behind: none, or the whole listing, saved
\* 24 hours ago.
InitThreads ==
    /\ InitManager
    /\ upstream = Listing(MaxListing)
    /\ proxy_file \in {NoFile, [exists |-> TRUE, proxies |-> upstream, saved_at |-> 0]}
    /\ InitTask
    /\ env = [ffmpeg |-> TRUE, cookie_files |-> {}, cookie_text |-> NetscapeText]

NextThreads ==
    \E t \in Threads :
        \/ Call(t)
        \/ GnpIfEmpty(t) \/ GnpIfPastEnd(t) \/ GnpReset(t) \/ GnpRead(t)
        \/ GnpAdvance(t) \/ GnpReturn(t)
        \/ MpfIfIn(t) \/ MpfRemove(t) \/ MpfIfLeft(t) \/ MpfIfNone(t)
        \/ SaveOpen(t) \/ SaveDump(t)
        \/ UwpLoad(t) \/ UwpApi(t) \/ UwpCheck(t)
        \/ UwpSetList(t) \/ UwpSetIndex(t) \/ UwpSetTime(t)

\* The pool of one worker process under callers that run at the same time.
SpecThreads == InitThreads /\ [][NextThreads]_vars

\* -------------------------------------------------------------- properties
\* C1: round-robin fairness. While the working set of N distinct proxies is
\* not replaced or reduced, the proxies get_next_proxy hands out repeat with
\* period exactly N (any N consecutive calls return each proxy once, the
\* (N+1)-th returns the first again), and after each hand-out the cursor is
\* one position past the proxy handed out, modulo N.
C1_RoundRobin ==
    handed # <<>> =>
        /\ working_proxies # <<>>
        /\ \A i, j \in 1..Len(handed) :
             i < j => ((handed[i] = handed[j]) <=> ((j - i) % Len(working_proxies) = 0))
        /\ current_proxy_index =
               IndexOf(handed[Len(handed)], working_proxies) % Len(working_proxies)

C1_Witness ==
    /\ Len(working_proxies) = MaxProxies
    /\ Len(handed) = MaxProxies + 1
    /\ handed[MaxProxies + 1] = handed[1]

\* C2: after the eviction of a proxy that is not at the cursor, the following
\* get_next_proxy calls return the remaining proxies in their previous cyclic
\* order, starting with the proxy that was due next before the eviction.
C2_EvictionKeepsRotation ==
    (expect # <<>> /\ Len(handed) <= MaxProxies) =>
        \A i \in 1..Len(handed) : handed[i] = expect[((i - 1) % Len(expect)) + 1]

\* C3: whenever the working set is non-empty, 0 <= cursor < len(working set).
C3_CursorInRange ==
    working_proxies # <<>> =>
        (0 <= current_proxy_index /\ current_proxy_index < Len(working_proxies))

\* C4: a request that repeats (same URL, same audio_only) a request that has
\* completed makes no download invocation and returns a completed result marked
\* cached with the same artifact identifier.
C4_IdempotentCaching ==
    (pc = "done" /\ repeat_of # <<>>) =>
        /\ ret.status = "completed"
        /\ ret.cached
        /\ attempts = <<>>
        /\ "download" \notin tool_modes
        /\ ret.youtube_id = repeat_of

C4_Witness ==
    /\ pc = "done"
    /\ repeat_of # <<>>
    /\ ret.cached
    /\ nreq = 2

\* C5: a request answered from the cache has called neither the pool's refresh
\* nor its next (working set and cursor are as they were when it began), and
\* has not run the downloader tool in any mode.
C5_CacheNoSideEffects ==
    (pc = "done" /\ ret.cached) =>
        /\ pool_calls = {}
        /\ <<working_proxies, current_proxy_index>> = begin_pool
        /\ tool_modes = {}

\* C6: when every strategy of the first sweep failed and the failure text is
\* not authentication-class, the request makes exactly one sweep (one call per
\* strategy, none of a second sweep) and does not complete.
C6_NoEscalationOnOtherErrors ==
    (pc \in {"after_sweep", "done"} /\ attempts # <<>>
        /\ ~first_result.success /\ ~is_authentication_error(first_result.error)) =>
        /\ \A i \in 1..Len(attempts) : attempts[i].n = 1
        /\ Len(attempts) = Len(GeneralOrder)
        /\ sweep.n = 1
        /\ pc = "done" => ret.status \in {"failed", "raised"}

C6_Witness ==
    /\ pc = "done"
    /\ first_result.error = AllClientsFailedPrefix \o ErrHttp500
    /\ ret.status = "failed"
    /\ Len(attempts) = Len(GeneralOrder)

\* The calls of the second sweep, in order.
SecondSweepAttempts ==
    LET Second(a) == a.n = 2
    IN SelectSeq(attempts, Second)

\* C7: when the first sweep ran without cookies and every strategy failed with
\* an authentication-class failure, the request has, when it ends, made one
\* second sweep with use_cookies on (each strategy at most once, all of them
\* unless one succeeded, after the calls of the first sweep), and nothing more.
C7_OneCookieEscalation ==
    (pc = "done" /\ attempts # <<>> /\ ~attempts[1].use_cookies
        /\ ~first_result.success /\ is_authentication_error(first_result.error)) =>
        LET second == SecondSweepAttempts
            first == Len(attempts) - Len(second)
        IN /\ second # <<>>
           /\ first = Len(GeneralOrder)
           /\ \A i \in 1..Len(attempts) : attempts[i].n = (IF i <= first THEN 1 ELSE 2)
           /\ \A i \in 1..Len(second) : second[i].use_cookies
           /\ \A i, j \in 1..Len(second) : i # j => second[i].client # second[j].client
           /\ Len(second) <= Len(GeneralOrder)
           /\ ret.status # "completed" => Len(second) = Len(GeneralOrder)

C7_Witness ==
    /\ pc = "done"
    /\ first_result.error = AllClientsFailedPrefix \o ErrSignIn
    /\ Len(attempts) = 2 * Len(GeneralOrder)
    /\ ret.status = "failed"

\* C8: a second sweep is made only with a cookie file that exists, every call
\* of it passes that file to the downloader, and its strategies are tried in
\* the cookie-prioritized order.
C8_EscalationUsesCookieFile ==
    LET second == SecondSweepAttempts
    IN /\ sweep.n = 2 => CookieFileExists(sweep.cookies_path)
       /\ \A i \in 1..Len(second) : second[i].cookies /\ second[i].client = CookieOrder[i]

\* C9: a request always ends with a structured result, completed or failed
\* with an error text and a kind tag; no exception leaves the task.
C9_NoRaisedFaults ==
    pc = "done" =>
        \/ ret.status = "completed"
        \/ ret.status = "failed" /\ ret.error # <<>> /\ ret.exc_type # "none"

\* C10: when a request has ended in failure, a poller is told a failure state
\* with the error text and a kind tag, never completed with progress 100.
C10_FailureVisibleToPollers ==
    (pc = "done" /\ ret.status \in {"failed", "raised"}) =>
        /\ StatusResponse.state = "FAILURE"
        /\ StatusResponse.error = ret.error
        /\ StatusResponse.exc_type # "none"
        /\ ~(StatusResponse.status = "completed" /\ StatusResponse.progress = 100)

\* C11: when a request ends failed after every strategy of its last sweep
\* failed, the result carries the error text of that sweep and the kind tag of
\* that sweep ('AllClientsFailed', 'TimeoutError').
C11_KindTagPreserved ==
    (pc = "done" /\ ret.status = "failed" /\ attempts # <<>> /\ ~result.success) =>
        /\ ret.error = result.error
        /\ ret.exc_type = result.error_type

\* C12: when a request that was handed proxy p ends in total failure with a
\* text containing 'proxy' or 'connection', mark_proxy_failed(p) has been
\* called, p is no longer in the working set, and the request's failure (its
\* error text) is what the caller is given.
C12_ProxyFailureEvicts ==
    (pc = "done" /\ current_proxy # NoProxy /\ attempts # <<>>
        /\ ~result.success /\ IsProxyError(result.error)) =>
        /\ "evict" \in pool_calls
        /\ ~Member(current_proxy, working_proxies)
        /\ ret.status = "failed"
        /\ ret.error = result.error

\* C13: the step that empties the working set (the eviction of the last
\* proxy) schedules one refresh and raises nothing to its caller, whether the
\* caller runs on an event loop or not.
C13_EmptyPoolStartsRefresh ==
    [][(working_proxies # <<>> /\ working_proxies' = <<>>) =>
          (raised' = "none" /\ pending_refresh' = pending_refresh + 1)]_vars

\* C14: should_update_proxies() is true exactly when the working set is
\* empty, in every reachable state: so it is true right after an eviction
\* emptied the set and false right after a refresh installed a non-empty set.
C14_ShouldRefreshIffEmpty ==
    should_update_proxies <=> (working_proxies = <<>>)

\* the set emptied by an eviction, the refresh it scheduled not yet run
C14_Witness ==
    /\ working_proxies = <<>>
    /\ pending_refresh > 0
    /\ last_proxy_update > 0
    /\ should_update_proxies

\* C15: every step that removes a proxy from the working set leaves the
\* persisted snapshot holding exactly the reduced set, the empty one included.
\* (A write that fails while proxies remain leaves the file as it was; that
\* step is not counted against the program here.)
C15_EvictionPersisted ==
    [][Len(working_proxies') < Len(working_proxies) =>
          \/ proxy_file'.exists /\ proxy_file'.proxies = working_proxies'
          \/ working_proxies' # <<>> /\ proxy_file' = proxy_file]_vars

\* C16: a refresh that finds no usable snapshot and gets zero candidates from
\* the listing (an empty or failed response) leaves the working set, the
\* cursor, the last-refresh time and the persisted snapshot as they were.
C16_EmptyListingNoOp ==
    [][(last_refresh'.ran /\ ~last_refresh'.from_file /\ last_refresh'.candidates = <<>>) =>
          UNCHANGED <<working_proxies, current_proxy_index, last_proxy_update, proxy_file>>]_vars

\* such a refresh has just run on a pool in use, the snapshot being stale
C16_Witness ==
    /\ last_refresh.ran
    /\ ~last_refresh.from_file
    /\ last_refresh.candidates = <<>>
    /\ working_proxies # <<>>
    /\ current_proxy_index > 0
    /\ proxy_file.exists

\* C17: a refresh that finds a snapshot saved more than 24 hours ago does not
\* install it: it asks the listing, and the working set it leaves holds only
\* proxies whose check succeeded in this run, or is the one it found.
C17_StaleSnapshotIgnored ==
    [][(last_refresh'.ran /\ proxy_file.exists /\ now - proxy_file.saved_at > DAY) =>
          /\ ~last_refresh'.from_file
          /\ \/ UNCHANGED working_proxies
             \/ /\ working_proxies' # <<>>
                /\ Range(working_proxies') \subseteq last_refresh'.alive]_vars

\* the stale snapshot still on disk (its rewrite failed), other proxies installed
C17_Witness ==
    /\ last_refresh.ran
    /\ ~last_refresh.from_file
    /\ proxy_file.exists
    /\ now - proxy_file.saved_at > DAY
    /\ working_proxies # <<>>
    /\ Range(working_proxies) = last_refresh.alive
    /\ working_proxies # proxy_file.proxies

\* C18: whatever fails in a refresh (the snapshot read, the listing request,
\* some or all of the checks, the snapshot write), the refresh raises nothing
\* and leaves the pool as it was or holding, from cursor 0, the snapshot's
\* proxies or the candidates whose check succeeded; when some checks succeeded
\* the refresh installs exactly those candidates.
C18_RefreshAbsorbsFailures ==
    [][last_refresh'.ran =>
          /\ raised' = "none"
          /\ \/ UNCHANGED <<working_proxies, current_proxy_index, last_proxy_update>>
             \/ /\ working_proxies' # <<>>
                /\ current_proxy_index' = 0
                /\ IF last_refresh'.from_file
                   THEN working_proxies' = proxy_file.proxies
                   ELSE Range(working_proxies') \subseteq last_refresh'.alive
          /\ (~last_refresh'.from_file /\ last_refresh'.alive # {}) =>
                Range(working_proxies') = last_refresh'.alive]_vars

\* the read and the write failed, one check failed, the other candidate installed
C18_Witness ==
    /\ last_refresh.ran
    /\ ~last_refresh.read_ok
    /\ ~last_refresh.write_ok
    /\ last_refresh.alive # {}
    /\ last_refresh.alive # Range(last_refresh.candidates)
    /\ Range(working_proxies) = last_refresh.alive
    /\ raised = "none"

\* The position of the i-th call within its sweep.
PositionInSweep(i) ==
    IF attempts[i].n = 1 THEN i
    ELSE i - Cardinality({k \in 1..Len(attempts) : attempts[k].n = 1})

\* C19: the ordering of the strategies is CookieOrder exactly when cookies are
\* on and the cookie file exists, GeneralOrder otherwise, whatever the URL,
\* the proxy and the audio flag; the two orderings differ and are non-empty;
\* and every call a request has made used the strategy its sweep's ordering
\* has at that position.
C19_OrderingByCookieAvailability ==
    /\ \A use \in BOOLEAN, path \in {"none", "main", "alt"} :
         clients_order(use, path) =
             IF use /\ CookieFileExists(path) THEN CookieOrder ELSE GeneralOrder
    /\ CookieOrder # GeneralOrder
    /\ CookieOrder # <<>> /\ GeneralOrder # <<>>
    /\ \A i \in 1..Len(attempts) :
         attempts[i].client =
             (IF attempts[i].cookies THEN CookieOrder ELSE GeneralOrder)[PositionInSweep(i)]

\* an audio request through a proxy went through the whole cookie ordering
C19_Witness ==
    /\ pc = "done"
    /\ req.audio_only
    /\ current_proxy # NoProxy
    /\ Len(attempts) = Len(CookieOrder)
    /\ attempts[1].cookies
    /\ attempts[3].client = "ios"
    /\ attempts[Len(attempts)].client = CookieOrder[Len(CookieOrder)]

\* C20: a running request always reaches its end, where it is exactly one of
\* cached, downloaded or failed; it makes at most two sweeps, each calling a
\* strategy at most once; and once ended it changes nothing more: the next
\* step is the start of another request.
C20_BoundedTermination ==
    /\ [](/\ sweep.n <= 2
          /\ Len(attempts) <= 2 * Len(GeneralOrder)
          /\ \A i, j \in 1..Len(attempts) :
               (i # j /\ attempts[i].n = attempts[j].n) => attempts[i].client # attempts[j].client
          /\ pc = "done" =>
               \/ ret.status = "completed" /\ ret.cached /\ attempts = <<>>
               \/ ret.status = "completed" /\ ~ret.cached /\ attempts # <<>>
               \/ ret.status \in {"failed", "raised"})
    /\ [][pc = "done" => nreq' = nreq + 1]_vars
    /\ (pc \in {"pool", "get_proxy", "cache", "after_sweep"}) ~> (pc = "done")

\* a request ended failed after two full sweeps, and another one has ended since
C20_Witness ==
    /\ pc = "done"
    /\ nreq = MaxRequests
    /\ Len(attempts) = 2 * Len(GeneralOrder)
    /\ sweep.n = 2
    /\ ret.status = "failed"

\* C23: a missing conversion binary is fatal without retry. The step that
\* starts an audio-only request while ffmpeg is missing ends the request at
\* once with a failed result of kind FFmpegNotFound; no download_with_retry
\* call is made, no sweep is started, and the pool (working set, cursor,
\* snapshot, scheduled refreshes) is left as it was.
C23_FFmpegMissingIsFatal ==
    [][(nreq' = nreq + 1 /\ req'.audio_only /\ ~env.ffmpeg) =>
          /\ pc' = "done"
          /\ ret' = Failed(ErrFFmpeg, "FFmpegNotFound")
          /\ attempts' = <<>>
          /\ "download" \notin tool_modes'
          /\ sweep' = NoSweep
          /\ pool_calls' = {}
          /\ UNCHANGED <<poolVars, last_refresh>>]_vars

C23_Witness ==
    /\ pc = "done"
    /\ req.audio_only
    /\ ~env.ffmpeg
    /\ ret.exc_type = "FFmpegNotFound"
    /\ working_proxies # <<>>
    /\ nreq = 2

\* C24: stale working sets are rebuilt. No proxy is handed out from a
\* non-empty working set whose entries (the persisted snapshot holds that same
\* set) were saved more than 24 hours ago: such a set is rebuilt first.
C24_StaleSetRebuilt ==
    [][(/\ working_proxies # <<>>
        /\ proxy_file.exists
        /\ proxy_file.proxies = working_proxies
        /\ now - proxy_file.saved_at > DAY)
       => ~(handed' # <<>> /\ handed' # handed)]_vars

\* What download_with_multiple_clients gives for every script of outcomes in
\* which the calls before the j-th fail with one error and the calls from the
\* j-th on return another outcome: it stops at the j-th call when that one
\* succeeds, and otherwise makes every call and reports the error of the last.
SweepLaw ==
    \A use \in BOOLEAN, path \in {"none", "main", "alt"} :
      \A last \in ToolOutcomes, early \in EarlyFailures, j \in 1..Len(GeneralOrder) :
        LET run == download_with_multiple_clients(use, path, SweepScript(j, early, last))
        IN IF last.success
           THEN run.made = j /\ run.result = last
           ELSE /\ run.made = Len(GeneralOrder)
                /\ ~run.result.success
                /\ run.result.error = AllClientsFailedPrefix \o last.error

\* The position of the i-th call within its sweep, a second sweep following
\* a first one that has tried every strategy.
PlaceInSweep(i) == IF attempts[i].n = 1 THEN i ELSE i - Len(GeneralOrder)

\* The calls of sweep n used the strategies of `order`, position by position.
FollowsOrder(n, order) ==
    \A i \in 1..Len(attempts) :
        attempts[i].n = n =>
            /\ PlaceInSweep(i) \in 1..Len(order)
            /\ attempts[i].client = order[PlaceInSweep(i)]

\* C25: sweep semantics. The calls of one sweep follow one of the two
\* orderings position by position from its first strategy (so one after
\* another, each strategy at most once, no ordering naming a strategy twice),
\* all with the same proxy and the same cookie mode; a sweep stops at the
\* first call that succeeds; a sweep in which every call failed has tried
\* every strategy and reports the error of the last call (behind the fixed
\* prefix of download_with_multiple_clients).
C25_SweepSemantics ==
    /\ FollowsOrder(1, CookieOrder) \/ FollowsOrder(1, GeneralOrder)
    /\ FollowsOrder(2, CookieOrder) \/ FollowsOrder(2, GeneralOrder)
    /\ \A i \in 2..Len(attempts) :
         IF attempts[i].n = attempts[i - 1].n
         THEN /\ attempts[i].proxy = attempts[i - 1].proxy
              /\ attempts[i].use_cookies = attempts[i - 1].use_cookies
              /\ attempts[i].cookies = attempts[i - 1].cookies
         ELSE attempts[i - 1].n = 1 /\ attempts[i].n = 2
    /\ (pc = "after_sweep" /\ ~result.success) =>
         /\ Len(attempts) = sweep.n * Len(GeneralOrder)
         /\ attempts[Len(attempts)].n = sweep.n
         /\ result.error_type = "AllClientsFailed"
         /\ Len(result.error) > Len(AllClientsFailedPrefix)
         /\ SubSeq(result.error, 1, Len(AllClientsFailedPrefix)) = AllClientsFailedPrefix
    /\ pc = "idle" =>
         /\ SweepLaw
         /\ \A order \in {CookieOrder, GeneralOrder} :
              \A k, l \in 1..Len(order) : k # l => order[k] # order[l]

\* every strategy of a sweep through a proxy failed, the last with another
\* error than the first
C25_Witness ==
    /\ pc = "after_sweep"
    /\ ~result.success
    /\ result.error = AllClientsFailedPrefix \o ErrConnection
    /\ Len(attempts) = Len(GeneralOrder)
    /\ attempts[1].proxy # NoProxy

\* The candidates of the refresh that has just run whose check succeeded, in
\* the order of the listing.
PassedCandidates(r) ==
    LET Passed(p) == p \in r.alive
    IN SelectSeq(r.candidates, Passed)

\* A refresh has just taken the upstream path and at least one candidate
\* passed its check.
UpstreamRefreshRan(r) == r.ran /\ ~r.from_file /\ r.alive # {}

FreshSnapshot ==
    /\ proxy_file.exists
    /\ proxy_file.proxies # <<>>
    /\ now - proxy_file.saved_at <= DAY

\* The refresh that has just run installed the snapshot it found: the
\* snapshot's entries are the working set, the cursor is 0, the listing source
\* was not asked, no candidate was checked, the file is as it was.
InstalledFromSnapshot ==
    /\ last_refresh'.from_file
    /\ working_proxies' = proxy_file.proxies
    /\ current_proxy_index' = 0
    /\ last_refresh'.candidates = <<>>
    /\ last_refresh'.alive = {}
    /\ proxy_file' = proxy_file

RunsWithoutProxy ==
    /\ pc \in {"cache", "after_sweep", "done"}
    /\ "next" \in pool_calls
    /\ current_proxy = NoProxy

\* C28: proxy-less operation. A request that found the pool empty, refreshed
\* it to no avail and got no proxy goes on: unless the cache answers it, it
\* runs the sweep, every call of which is made without a proxy; it completes
\* when a strategy succeeds, and when it fails it returns the failure of the
\* sweep (never a raised exception); whatever the error text, it evicts
\* nothing and leaves the pool empty with no refresh scheduled.
C28_ProxylessOperation ==
    RunsWithoutProxy =>
        /\ begin_pool[1] = <<>>
        /\ "refresh" \in pool_calls
        /\ "evict" \notin pool_calls
        /\ working_proxies = <<>>
        /\ pending_refresh = 0
        /\ raised = "none"
        /\ \A i \in 1..Len(attempts) : attempts[i].proxy = NoProxy
        /\ (pc = "after_sweep" \/ (pc = "done" /\ ~ret.cached)) => attempts # <<>>
        /\ pc = "done" =>
             /\ ret.status # "raised"
             /\ result.success => ret.status = "completed"
             /\ ret.status = "failed" => (~result.success /\ ret.error = result.error)

\* without a proxy every strategy failed, the last with a proxy-class error
C28_Witness ==
    /\ RunsWithoutProxy
    /\ pc = "done"
    /\ ret.status = "failed"
    /\ IsProxyError(ret.error)
    /\ Len(attempts) = Len(GeneralOrder)
    /\ "evict" \notin pool_calls

\* C30: cookie availability requires a usable file. The first sweep of a
\* request runs in cookie mode, or in the cookie-prioritized ordering, only if
\* the cookie file it names exists and holds at least one correctly formatted
\* entry.
C30_CookiesRequireUsableFile ==
    (attempts # <<>> /\ attempts[1].n = 1) =>
        ((attempts[1].use_cookies
             \/ (Len(attempts) >= 3 /\ attempts[3].n = 1 /\ attempts[3].client # GeneralOrder[3]))
           => validate_cookies_file(CookiesPath))

\* Thread t is inside get_next_proxy and has read the proxy it will return.
HasReadProxy(t) == th[t].op = "next" /\ th[t].at \in {"advance", "return"}

\* No get_next_proxy call has indexed outside the working set.
NeverIndexesOutside ==
    \A t \in Threads : th[t].out \notin {"IndexError", "ZeroDivisionError"}

\* C21: pool mutations are serialized. With the statements of concurrent
\* get_next_proxy, mark_proxy_failed and update_working_proxies calls
\* interleaved, no get_next_proxy call indexes outside the working set (it
\* raises neither IndexError nor ZeroDivisionError), and two get_next_proxy
\* calls running at the same time on an unchanged working set of at least two
\* proxies do not read the same proxy.
C21_PoolMutationsSerialized ==
    /\ NeverIndexesOutside
    /\ \A t, u \in Threads :
         (/\ t # u
          /\ HasReadProxy(t) /\ HasReadProxy(u)
          /\ th[t].stable /\ th[u].stable
          /\ Len(working_proxies) >= 2)
         => th[t].proxy # th[u].proxy

\* C22: snapshot writes are atomic. Every read of the snapshot by
\* load_proxies_from_file finds no file or the whole text of one write, never
\* the empty file a writer has just opened, nor the text of one write followed
\* by the end of another.
C22_AtomicSnapshotWrites ==
    \A t \in Threads : th[t].seen \in {"none", "whole"}

\* Thread t is inside update_working_proxies and has the answer of the
\* listing source.
HasFetched(t) == th[t].op = "refresh" /\ th[t].at = "check"

\* C29: at most one refresh in flight. No update_working_proxies call runs
\* while another is in flight, so no two of them hold an answer of the listing
\* source fetched for the same empty working set.
C29_OneRefreshInFlight ==
    \A t, u \in Threads :
        (HasFetched(t) /\ HasFetched(u) /\ working_proxies = <<>>) => t = u

\* C34: the working set becomes empty only through eviction. A refresh,
\* whether it loads the snapshot, gets no candidates or finds that no
\* candidate passes its check, leaves the working set and the cursor as they
\* were or installs a non-empty set with cursor 0; it never turns a non-empty
\* working set into an empty one.
C34_RefreshNeverEmpties ==
    [][last_refresh'.ran =>
          /\ \/ UNCHANGED <<working_proxies, current_proxy_index>>
             \/ (working_proxies' # <<>> /\ current_proxy_index' = 0)
          /\ working_proxies # <<>> => working_proxies' # <<>>]_vars

\* the listing answered but no candidate passed: the set in use was kept
C34_Witness ==
    /\ last_refresh.ran
    /\ ~last_refresh.from_file
    /\ last_refresh.candidates # <<>>
    /\ last_refresh.alive = {}
    /\ working_proxies # <<>>
    /\ current_proxy_index # 0

\* C33: an evicted proxy does not come back unvalidated. Once
\* mark_proxy_failed has removed a proxy, get_next_proxy returns it again only
\* after it has passed a new check; a refresh that follows the eviction of the
\* last proxy does not reinstall it from the persisted snapshot.
C33_EvictedStaysOut ==
    last_call.op = "next" => last_call.proxy \notin evicted

\* C38: evicting a non-member is a no-op. mark_proxy_failed called with a
\* proxy that is not in the working set changes neither the working set nor
\* the cursor nor the persisted snapshot, schedules no refresh and raises
\* nothing.
C38_EvictNonMemberNoOp ==
    [][(last_call'.op = "evict" /\ ~last_call'.member) =>
          /\ UNCHANGED <<working_proxies, current_proxy_index, last_proxy_update,
                         proxy_file, pending_refresh>>
          /\ raised' = "none"
          /\ ~last_refresh'.ran]_vars

\* a proxy evicted once is evicted again, while others are still in the set
C38_Witness ==
    /\ last_call.op = "evict"
    /\ ~last_call.member
    /\ last_call.proxy \in evicted
    /\ working_proxies # <<>>
    /\ proxy_file.exists

\* The text behind the fixed prefix of a failed sweep's error.
ReportedError(r) == SubSeq(r.error, Len(AllClientsFailedPrefix) + 1, Len(r.error))

\* Errors of the strategies before the last: of the authentication class, or
\* naming the proxy or the connection.
EarlyErrors == {ErrSignIn, ErrProxy, ErrConnection}

\* Errors of the last strategy that are of neither class.
PlainErrors == {ErrHttp500, ErrTimeout}

\* Whatever the strategies before the last failed with, the text a failed
\* sweep reports is classified as the error of the last strategy is.
LastAttemptLaw ==
    \A early \in EarlyErrors \cup PlainErrors, last \in EarlyErrors \cup PlainErrors :
      LET run == download_with_multiple_clients(FALSE, "none",
                     SweepScript(Len(GeneralOrder), Failure(early, "YtDlpError"),
                                 Failure(last, "YtDlpError")))
      IN /\ ReportedError(run.result) = last
         /\ is_authentication_error(run.result.error) = is_authentication_error(last)
         /\ IsProxyError(run.result.error) = IsProxyError(last)
         /\ (early \in EarlyErrors /\ last \in PlainErrors) =>
               (~is_authentication_error(run.result.error) /\ ~IsProxyError(run.result.error))

\* C35: the escalation decision looks only at the last attempt. After a first
\* sweep in which every strategy failed, a second sweep is run exactly when
\* the error text of the last strategy tried is of the authentication class
\* (and no cookie file was found); an authentication error of an earlier
\* strategy starts none when the last strategy failed otherwise. The same
\* holds for the eviction at the end of the request: the proxy is evicted
\* exactly when the last strategy's text names the proxy or the connection.
C35_LastAttemptDecides ==
    [][/\ pc = "idle" => LastAttemptLaw
       /\ (pc = "after_sweep" /\ ~result.success) =>
            LET text == ReportedError(result)
            IN /\ (sweep.n = 1 /\ ~CookiesExist) =>
                     (attempts' # attempts <=> is_authentication_error(text))
               /\ attempts' # attempts =>
                     (sweep.n = 1 /\ sweep'.n = 2 /\ is_authentication_error(text))
               /\ "evict" \in pool_calls' <=>
                     (pc' = "done" /\ current_proxy # NoProxy /\ IsProxyError(text))]_vars

\* the strategies before the last failed with an authentication error, the
\* last with HTTP 500: the request ended after one sweep, its proxy kept
C35_Witness ==
    /\ pc = "done"
    /\ ~CookiesExist
    /\ sweep.n = 1
    /\ attempts # <<>>
    /\ result = download_with_multiple_clients(FALSE, "none",
                    SweepScript(Len(GeneralOrder), Failure(ErrSignIn, "YtDlpError"),
                                Failure(ErrHttp500, "YtDlpError"))).result
    /\ ret.status = "failed"
    /\ current_proxy # NoProxy
    /\ Member(current_proxy, working_proxies)

\* C36: the reported artifact matches the requested type. A completed result,
\* cached or not, names a file of the request's identifier: the .mp3 for an
\* audio request, and for a video request a video file, never the .mp3 of the
\* same identifier, also when that audio file is already in the file store.
C36_ArtifactMatchesType ==
    (pc = "done" /\ ret.status = "completed") =>
        /\ ret.file_name[1] = YoutubeId
        /\ ret.file_name \in video_files
        /\ req.audio_only <=> ret.file_name[2] = "mp3"

\* The text of the exception a request that is about to end hands to its
\* except block.
FinalText == IF result.success THEN ErrFileNotFound ELSE result.error

\* The step that ends a failed request evicts the proxy the request was
\* handed: the working set loses that proxy and nothing else, and the snapshot
\* is left alone or rewritten with what remains.
EvictionStep ==
    /\ pc = "after_sweep" /\ pc' = "done"
    /\ ret'.status \in {"failed", "raised"}
    /\ current_proxy # NoProxy
    /\ IsProxyError(FinalText)
    /\ Member(current_proxy, working_proxies)
    /\ working_proxies' = RemoveFirst(current_proxy, working_proxies)
    /\ \/ proxy_file' = proxy_file
       \/ proxy_file'.proxies = working_proxies'

\* The refresh a request runs first when it finds the working set empty.
RefreshAtStart ==
    /\ pc = "pool" /\ pc' = "get_proxy"
    /\ working_proxies = <<>>
    /\ last_refresh'.ran

\* C37 as stated: eviction only on proxy-attributed failure. A request changes
\* the working set or the persisted snapshot only by evicting, when it ends
\* failed with a text containing 'proxy' or 'connection', the one proxy it
\* was handed; in every other case both are after the request as before it.
C37_EvictionOnlyOnProxyFailureAsStated ==
    [][(working_proxies' # working_proxies \/ proxy_file' # proxy_file)
          => EvictionStep]_vars

\* C37: eviction only on proxy-attributed failure. A request changes the
\* working set or the persisted snapshot only in two ways: by the refresh it
\* runs at its start when it finds the working set empty, and by evicting,
\* when it ends failed with a text containing 'proxy' or 'connection', the
\* one proxy it was handed. A request that completes (downloaded or cached)
\* evicts nothing.
C37_EvictionOnlyOnProxyFailure ==
    [][/\ (working_proxies' # working_proxies \/ proxy_file' # proxy_file)
            => (EvictionStep \/ RefreshAtStart)
       /\ "evict" \in pool_calls' =>
            (ret'.status \in {"failed", "raised"} /\ current_proxy # NoProxy
               /\ IsProxyError(FinalText))]_vars

\* a request whose refresh filled the pool ended with a proxy-class failure
\* and evicted the proxy it was handed, others remaining
C37_Witness ==
    /\ pc = "done"
    /\ pool_calls = {"refresh", "next", "evict"}
    /\ ret.status = "failed"
    /\ IsProxyError(ret.error)
    /\ ~Member(current_proxy, working_proxies)
    /\ working_proxies # <<>>
    /\ proxy_file.exists /\ proxy_file.proxies = working_proxies

\* Keyword kw stands in the text at position i, letter case apart.
OccursAt(text, kw, i) ==
    /\ i + Len(kw) - 1 <= Len(text)
    /\ \A k \in 1..Len(kw) : LowerWord(text[i + k - 1]) = kw[k]

\* The text contains an entry of the authentication vocabulary, letter case
\* apart.
HasAuthKeyword(text) ==
    \E kw \in auth_keywords : \E i \in 1..Len(text) : OccursAt(text, kw, i)

\* C32: error classification is a pure substring match. The classifier
\* returns true exactly when the error text, compared case-insensitively,
\* contains at least one entry of the fixed authentication vocabulary, and
\* false otherwise; a second call with the same text returns the same answer;
\* the call changes nothing but the value it returns.
C32_PureSubstringMatch ==
    [][/\ verdict'.returned => verdict'.value = HasAuthKeyword(error_text')
       /\ (verdict.returned /\ verdict'.returned /\ error_text' = error_text)
             => verdict'.value = verdict.value
       /\ verdict'.returned =>
             UNCHANGED <<error_text, poolVars, obsVars, envVars, taskVars, sharedVars,
                         callVars>>]_vars

\* a text with a keyword in another letter case, classified as authentication
C32_Witness ==
    /\ verdict.returned /\ verdict.value
    /\ error_text = <<"Please", "sign", "in">>
    /\ ~Contains(error_text, <<"please", "sign", "in">>)

\* The running transcript request has run a transcription.
HasTranscribed(trace) == \E i \in 1..Len(trace) : trace[i] \in {"transcribe", "write"}

\* C39: transcript task ordering. When the transcript file already exists the
\* task returns it as cached, having run no download and no transcription;
\* otherwise transcription starts only when the audio file exists, after the
\* nested download when the audio was missing; and when that download fails
\* or leaves no audio file the task ends as failed, having run no
\* transcription and written no transcript file.
C39_TranscriptOrdering ==
    [][/\ (srt_pc' = "done" /\ srt_ret'.cached) =>
            (srt_trace' = <<>> /\ SrtId' \in srt_files /\ srt_files' = srt_files
               /\ srt_ret'.status = "completed")
       /\ (srt_pc \in {"idle", "done"} /\ nsrt' # nsrt /\ SrtId' \in srt_files) =>
            (srt_pc' = "done" /\ srt_ret'.cached)
       /\ HasTranscribed(srt_trace') /\ ~HasTranscribed(srt_trace) =>
            /\ AudioExists(SrtId)
            /\ srt_trace # <<>> =>
                 (srt_trace = <<"download">> /\ ret.status = "completed" /\ pc = "done")
       /\ (srt_pc = "download" /\ pc = "done" /\ srt_pc' # "download"
             /\ (ret.status # "completed" \/ ~AudioExists(SrtId))) =>
            /\ srt_pc' = "done"
            /\ srt_ret'.status = "failed"
            /\ srt_trace' = <<"download">>
            /\ srt_files' = srt_files]_vars

\* the nested download failed: the task ended as failed with no transcription
\* and no transcript file
C39_Witness ==
    /\ srt_pc = "done"
    /\ srt_ret.status = "failed"
    /\ srt_trace = <<"download">>
    /\ ret.status = "failed"
    /\ attempts # <<>>
    /\ SrtId \notin srt_files
    /\ ~AudioExists(SrtId)

\* C40: wait_for_file_url terminates within its time budget. Whatever status
\* codes and request errors the file URL answers with, also a status other
\* than 200, 206, 401, 403 and 404 over and over, a call that has started
\* polling eventually returns true or false; it does not poll without bound.
C40_WaitTerminates == (wait_pc = "head") ~> (wait_pc = "done")

\* Worker w found no artifact, has run the downloader, which has written the
\* output file of its request, and has not ended yet.
Producing(w) == workers[w].pc = "after_sweep" /\ workers[w].result.success

\* C31: at most one production per identifier under concurrency. Of two
\* requests for the same URL and type running at the same time on different
\* workers at most one invokes the downloader; the other finds the artifact,
\* or the production in progress, and does not write to the same output path.
C31_AtMostOneProduction ==
    \A v, w \in Workers :
        (v # w /\ workers[v].req = workers[w].req) => ~(Producing(v) /\ Producing(w))

====
